---- MODULE Spec2Model ----
(***************************************************************************)
(* Alert and notification pipeline of the surveillance service:            *)
(* AlertService (app/services/alert_service.py), the camera event handlers *)
(* (app/services/camera_service.py) and the alert API (app/api/v1/         *)
(* alerts.py); the notification fan-out (app/services/                     *)
(* notification_service.py); biometric matching and fusion (app/services/  *)
(* biometric_service.py) with its entry points (app/api/v1/biometric.py,   *)
(* app/api/v1/auth.py).                                                    *)
(*                                                                         *)
(* Time is an integer number of seconds.  An optional value is a sequence  *)
(* of length 0 (Python None) or 1.  A Python string is a sequence of       *)
(* tokens, so that string formatting is a concatenation.  Distances and    *)
(* confidences are integers in hundredths (0.6 is 60).  A Python dict      *)
(* whose iteration order matters is a sequence of <<key, value>> pairs in  *)
(* insertion order.                                                        *)
(***************************************************************************)
EXTENDS Integers, Sequences, FiniteSets, TLC

\* ------------------------------------------------------------------ bounds
MaxTime == 60
TickSize == 30
NumTasks == 2
MaxCalls == 3
MaxOps == 2
MaxEvents == 2
MaxFrames == 3
RecordingFrames == 2

\* --------------------------------------------------------- program constants
ALERT_COOLDOWN == 60
SecondsPerDay == 86400
DefaultRetentionDays == 30

None == << >>
Some(x) == << x >>

Users == {7, 8}
Cameras == {1}
AlertIds == 1 .. 2

\* the arguments of create_alert that the model distinguishes
CreateInputs ==
  { [alert_type |-> <<"motion">>, severity |-> "medium",
     camera_id |-> Some(5), location |-> Some(<<"Lobby">>)],
    [alert_type |-> <<"test">>, severity |-> "low",
     camera_id |-> None, location |-> Some(<<"Test Location">>)] }

\* keyword arguments of update_alert
UpdateInputs ==
  { [status |-> "active"],
    [status |-> "resolved", severity |-> "high", user_id |-> Some(8)] }

RetentionInputs == {0, DefaultRetentionDays}

VARIABLES
  now,             \* datetime.utcnow()
  active_alerts,   \* AlertService.active_alerts of the long-lived instance
  alert_cooldowns, \* AlertService.alert_cooldowns of the long-lived instance
  in_flight,       \* alert objects held by create_alert calls suspended in
                   \* _send_notifications
  log,             \* outcomes of the create_alert calls on the instance
  ret,             \* the last acknowledge/resolve/update call and its result
  ops,             \* number of lifecycle and maintenance calls made so far
  created_log,     \* alerts created through camera handlers and the alert API
  api_response,    \* response of the last alert API request
  face_encodings_cache,        \* BiometricService.face_encodings_cache
  fingerprint_templates_cache, \* BiometricService.fingerprint_templates_cache
  iris_templates_cache,        \* BiometricService.iris_templates_cache
  auth,            \* the last call on the BiometricService and its result
  bio_response,    \* the last biometric API request and what it reached
  nsettings,       \* settings and NotificationService configuration
  fan,             \* the create_alert call inside _send_notifications
  query,           \* the last read-only AlertService call and its result
  cams,            \* per camera: capture handle, motion model, monitoring task
  login_response   \* the last POST /login request and its answer

bioVars == << face_encodings_cache, fingerprint_templates_cache,
              iris_templates_cache, auth, bio_response >>

notifVars == << nsettings, fan >>

vars == << now, active_alerts, alert_cooldowns, in_flight, log, ret, ops,
           created_log, api_response, bioVars, notifVars, query, cams,
           login_response >>

\* ------------------------------------------------------------ pure helpers
\* str() of an int, as the f-string formats it
IntStr(n) ==
  CASE n = 1 -> "1" [] n = 2 -> "2" [] n = 5 -> "5" [] OTHER -> "n"

\* f"{value}" of an Optional[int]
FmtOptInt(v) == IF v = None THEN <<"None">> ELSE << IntStr(v[1]) >>

\* f"{value}" of an Optional[str]
FmtOptStr(v) == IF v = None THEN <<"None">> ELSE v[1]

\* cooldown_key = f"{alert_type}_{camera_id}_{location}"
CooldownKey(inp) ==
  inp.alert_type \o <<"_">> \o FmtOptInt(inp.camera_id) \o <<"_">>
    \o FmtOptStr(inp.location)

IsInCooldown_Inclusive(cooldowns, key, t) ==
  IF key \notin DOMAIN cooldowns
    THEN FALSE
    ELSE t - cooldowns[key] <= ALERT_COOLDOWN

\* AlertService._is_in_cooldown
IsInCooldown(cooldowns, key, t) ==
  IF key \notin DOMAIN cooldowns
    THEN FALSE
    ELSE t - cooldowns[key] < ALERT_COOLDOWN

\* Alert(...): a new alert object
NewAlert(inp, obj, t) ==
  [ obj |-> obj,
    id |-> None,
    alert_type |-> inp.alert_type,
    severity |-> inp.severity,
    camera_id |-> inp.camera_id,
    location |-> inp.location,
    status |-> "active",
    user_id |-> None,
    created_at |-> t,
    updated_at |-> t,
    acknowledged_at |-> None,
    resolved_at |-> None,
    response_time |-> None ]

\* alert.id = len(self.active_alerts) + 1
NextId(store) == Cardinality(DOMAIN store) + 1

\* self.active_alerts[alert.id] = alert
StoreAlert(store, alert) ==
  [ i \in (DOMAIN store) \cup {alert.id[1]} |->
      IF i = alert.id[1] THEN alert ELSE store[i] ]

SetCooldown_NoStamp(cooldowns, key, t) == cooldowns

\* self.alert_cooldowns[cooldown_key] = datetime.utcnow()
SetCooldown(cooldowns, key, t) ==
  [ k \in (DOMAIN cooldowns) \cup {key} |->
      IF k = key THEN t ELSE cooldowns[k] ]

CreateAlert_StampSuppressed(store, cooldowns, inp, obj, t) ==
  LET key == CooldownKey(inp) IN
  IF IsInCooldown(cooldowns, key, t)
    THEN [ store |-> store, cooldowns |-> SetCooldown(cooldowns, key, t),
           alert |-> None ]
    ELSE LET alert == [ NewAlert(inp, obj, t) EXCEPT !.id = Some(NextId(store)) ]
         IN [ store |-> StoreAlert(store, alert),
              cooldowns |-> SetCooldown(cooldowns, key, t),
              alert |-> Some(alert) ]

\* AlertService.create_alert up to its first suspension point: the cooldown
\* check, the construction, the id, the store and the stamp
CreateAlert(store, cooldowns, inp, obj, t) ==
  LET key == CooldownKey(inp) IN
  IF IsInCooldown(cooldowns, key, t)
    THEN [ store |-> store, cooldowns |-> cooldowns, alert |-> None ]
    ELSE LET alert == [ NewAlert(inp, obj, t) EXCEPT !.id = Some(NextId(store)) ]
         IN [ store |-> StoreAlert(store, alert),
              cooldowns |-> SetCooldown(cooldowns, key, t),
              alert |-> Some(alert) ]

\* ------------------------------------------------------- alert lifecycle
\* the assignments of acknowledge_alert
Acknowledged(a, user, t) ==
  [ a EXCEPT !.status = "acknowledged",
             !.user_id = Some(user),
             !.acknowledged_at = Some(t),
             !.response_time = Some(t - a.created_at) ]

AcknowledgeAlertOn_Restamp(store, id, user, t) ==
  IF id \notin DOMAIN store
    THEN [ store |-> store, result |-> FALSE ]
    ELSE [ store |-> [ store EXCEPT ![id] = Acknowledged(store[id], user, t) ],
           result |-> TRUE ]

AcknowledgeAlertOn_UnknownTrue(store, id, user, t) ==
  IF id \notin DOMAIN store
    THEN [ store |-> store, result |-> TRUE ]
    ELSE IF store[id].status = "acknowledged"
      THEN [ store |-> store, result |-> TRUE ]
      ELSE [ store |-> [ store EXCEPT ![id] = Acknowledged(store[id], user, t) ],
             result |-> TRUE ]

\* AlertService.acknowledge_alert
AcknowledgeAlertOn(store, id, user, t) ==
  IF id \notin DOMAIN store
    THEN [ store |-> store, result |-> FALSE ]
    ELSE IF store[id].status = "acknowledged"
      THEN [ store |-> store, result |-> TRUE ]
      ELSE [ store |-> [ store EXCEPT ![id] = Acknowledged(store[id], user, t) ],
             result |-> TRUE ]

Resolved_FromCreated(a, user, t) ==
  [ a EXCEPT !.status = "resolved",
             !.user_id = Some(user),
             !.resolved_at = Some(t),
             !.response_time = Some(t - a.created_at) ]

\* the assignments of resolve_alert
Resolved(a, user, t) ==
  [ a EXCEPT !.status = "resolved",
             !.user_id = Some(user),
             !.resolved_at = Some(t),
             !.response_time =
                IF a.acknowledged_at # None
                  THEN Some(t - a.acknowledged_at[1])
                  ELSE Some(t - a.created_at) ]

\* AlertService.resolve_alert
ResolveAlertOn(store, id, user, t) ==
  IF id \notin DOMAIN store
    THEN [ store |-> store, result |-> FALSE ]
    ELSE IF store[id].status = "resolved"
      THEN [ store |-> store, result |-> TRUE ]
      ELSE [ store |-> [ store EXCEPT ![id] = Resolved(store[id], user, t) ],
             result |-> TRUE ]

\* allowed_fields of update_alert
AllowedFields ==
  { "description", "severity", "status", "location", "coordinates",
    "detected_objects", "biometric_data", "ai_analysis", "image_path",
    "video_path" }

\* AlertService.update_alert
UpdateAlertOn(store, id, kw, t) ==
  IF id \notin DOMAIN store
    THEN [ store |-> store, result |-> FALSE ]
    ELSE [ store |-> [ store EXCEPT ![id] =
               [ f \in DOMAIN store[id] |->
                   IF f = "updated_at" THEN t
                   ELSE IF f \in (DOMAIN kw) \cap AllowedFields THEN kw[f]
                   ELSE store[id][f] ] ],
           result |-> TRUE ]

\* AlertService.cleanup_old_alerts
CleanupOldAlertsOn_AnyResolved(store, retention_days, t) ==
  LET alerts_to_remove ==
        { i \in DOMAIN store : store[i].status = "resolved" }
  IN [ i \in (DOMAIN store) \ alerts_to_remove |-> store[i] ]

CleanupOldAlertsOn(store, retention_days, t) ==
  LET cutoff_date == t - retention_days * SecondsPerDay
      alerts_to_remove ==
        { i \in DOMAIN store :
            /\ store[i].status = "resolved"
            /\ store[i].resolved_at # None
            /\ store[i].resolved_at[1] < cutoff_date }
  IN [ i \in (DOMAIN store) \ alerts_to_remove |-> store[i] ]

\* settings as app/core/config.py defaults them, and a NotificationService
\* whose environment names no recipient and no SMS API
DefaultSettings ==
  [ EMAIL_ENABLED |-> FALSE, SMS_ENABLED |-> FALSE, WEBHOOK_URL |-> None,
    email_recipients |-> << >>, sms_recipients |-> << >>,
    sms_api |-> FALSE ]

\* no create_alert call is inside _send_notifications
FanIdle ==
  [ stage |-> "idle", obj |-> 0, email_sent |-> FALSE, sms_sent |-> FALSE,
    webhook_sent |-> FALSE, attempts |-> << >>, returned |-> None ]

\* token lifetime in minutes
ACCESS_TOKEN_EXPIRE_MINUTES == 30

\* no login request has been answered yet
NoLogin ==
  [ status_code |-> 0, username |-> "", password |-> "",
    access_token |-> None, token_type |-> None, expires_in |-> None,
    detail |-> None ]

\* cameras known to the deployment
CameraIds == {1, 2}

\* a camera nobody added: no capture handle, no motion model, no task
NoCamera ==
  [ capture |-> "none", detector |-> FALSE, listed |-> FALSE,
    task |-> "none", cancelled |-> FALSE,
    via |-> "none", removed |-> FALSE, shutdown |-> FALSE,
    frames |-> 0, failed |-> 0, faulted |-> FALSE,
    recording |-> "none", writer |-> "none", written |-> 0 ]

\* a fresh AlertService(): __init__ leaves both maps empty
EmptyStore == << >>
EmptyCooldowns == << >>

\* ------------------------------------------------------------------ state
Init ==
  /\ now = 0
  /\ active_alerts = EmptyStore
  /\ alert_cooldowns = EmptyCooldowns
  /\ in_flight = {}
  /\ log = << >>
  /\ ret = [ op |-> "none", alert_id |-> 0, user |-> 0, result |-> FALSE ]
  /\ ops = 0
  /\ created_log = << >>
  /\ api_response = [ op |-> "none", alert_id |-> None, status_code |-> 0 ]
  /\ face_encodings_cache = << >>
  /\ fingerprint_templates_cache = << >>
  /\ iris_templates_cache = << >>
  /\ auth = [ op |-> "none" ]
  /\ bio_response = [ endpoint |-> "none" ]
  /\ nsettings = DefaultSettings
  /\ fan = FanIdle
  /\ query = [ op |-> "none" ]
  /\ cams = [ c \in CameraIds |-> NoCamera ]
  /\ login_response = NoLogin

\* the clock advances
Tick ==
  /\ now + TickSize <= MaxTime
  /\ now' = now + TickSize
  /\ UNCHANGED << active_alerts, alert_cooldowns, in_flight, log, ret, ops,
                  created_log, api_response >>
  /\ UNCHANGED << bioVars, notifVars >>
  /\ UNCHANGED << query, cams, login_response >>

\* a task calls create_alert on the long-lived instance and runs to the
\* return None of a suppressed call or to the first await of
\* _send_notifications
CreateAlertCall(inp) ==
  /\ Cardinality(in_flight) < NumTasks
  /\ Len(log) < MaxCalls
  /\ LET obj == Len(log) + 1
         r == CreateAlert(active_alerts, alert_cooldowns, inp, obj, now)
     IN /\ active_alerts' = r.store
        /\ alert_cooldowns' = r.cooldowns
        /\ log' = Append(log, [ inp |-> inp, at |-> now, alert |-> r.alert ])
        /\ in_flight' = IF r.alert = None THEN in_flight
                                         ELSE in_flight \cup {obj}
  /\ UNCHANGED << now, ret, ops, created_log, api_response >>
  /\ UNCHANGED << bioVars, notifVars >>
  /\ UNCHANGED << query, cams, login_response >>

\* the awaits of _send_notifications complete and create_alert returns the
\* alert object
SendNotifications(obj) ==
  /\ obj \in in_flight
  /\ in_flight' = in_flight \ {obj}
  /\ UNCHANGED << now, active_alerts, alert_cooldowns, log, ret, ops,
                  created_log, api_response >>
  /\ UNCHANGED << bioVars, notifVars >>
  /\ UNCHANGED << query, cams, login_response >>

AcknowledgeAlert(id, user) ==
  /\ ops < MaxOps
  /\ ops' = ops + 1
  /\ LET r == AcknowledgeAlertOn(active_alerts, id, user, now)
     IN /\ active_alerts' = r.store
        /\ ret' = [ op |-> "acknowledge", alert_id |-> id, user |-> user,
                    result |-> r.result ]
  /\ UNCHANGED << now, alert_cooldowns, in_flight, log, created_log,
                  api_response >>
  /\ UNCHANGED << bioVars, notifVars >>
  /\ UNCHANGED << query, cams, login_response >>

ResolveAlert(id, user) ==
  /\ ops < MaxOps
  /\ ops' = ops + 1
  /\ LET r == ResolveAlertOn(active_alerts, id, user, now)
     IN /\ active_alerts' = r.store
        /\ ret' = [ op |-> "resolve", alert_id |-> id, user |-> user,
                    result |-> r.result ]
  /\ UNCHANGED << now, alert_cooldowns, in_flight, log, created_log,
                  api_response >>
  /\ UNCHANGED << bioVars, notifVars >>
  /\ UNCHANGED << query, cams, login_response >>

UpdateAlert(id, kw) ==
  /\ ops < MaxOps
  /\ ops' = ops + 1
  /\ LET r == UpdateAlertOn(active_alerts, id, kw, now)
     IN /\ active_alerts' = r.store
        /\ ret' = [ op |-> "update", alert_id |-> id, user |-> 0,
                    result |-> r.result ]
  /\ UNCHANGED << now, alert_cooldowns, in_flight, log, created_log,
                  api_response >>
  /\ UNCHANGED << bioVars, notifVars >>
  /\ UNCHANGED << query, cams, login_response >>

CleanupOldAlerts(retention_days) ==
  /\ ops < MaxOps
  /\ ops' = ops + 1
  /\ active_alerts' = CleanupOldAlertsOn(active_alerts, retention_days, now)
  /\ UNCHANGED << now, alert_cooldowns, in_flight, log, ret, created_log,
                  api_response >>
  /\ UNCHANGED << bioVars, notifVars >>
  /\ UNCHANGED << query, cams, login_response >>

\* AlertService.cleanup: teardown of the instance
Cleanup ==
  /\ ops < MaxOps
  /\ ops' = ops + 1
  /\ alert_cooldowns' = EmptyCooldowns
  /\ active_alerts' = EmptyStore
  /\ UNCHANGED << now, in_flight, log, ret, created_log, api_response >>
  /\ UNCHANGED << bioVars, notifVars >>
  /\ UNCHANGED << query, cams, login_response >>

\* --------------------------------------------- camera handlers and alert API
\* every handler and every request builds its own AlertService()
FreshCreate(inp) == CreateAlert(EmptyStore, EmptyCooldowns, inp, 0, now)

\* except Exception around a handler body: an HTTPException raised inside
\* the try block is caught and re-raised as a 500
Responded(raised_status) == 500

Recorded(via, inp, r) ==
  IF r.alert = None
    THEN created_log
    ELSE Append(created_log, [ via |-> via, inp |-> inp,
                               id |-> r.alert[1].id[1],
                               created_at |-> r.alert[1].created_at ])

\* CameraService._handle_motion_event
HandleMotionEvent(camera_id) ==
  /\ Len(created_log) < MaxEvents
  /\ LET inp == [ alert_type |-> <<"motion">>, severity |-> "medium",
                  camera_id |-> Some(camera_id), location |-> None ]
     IN created_log' = Recorded("motion", inp, FreshCreate(inp))
  /\ UNCHANGED << now, active_alerts, alert_cooldowns, in_flight, log, ret, ops,
                  api_response >>
  /\ UNCHANGED << bioVars, notifVars >>
  /\ UNCHANGED << query, cams, login_response >>

\* CameraService._handle_emergency_event
HandleEmergencyEvent(camera_id) ==
  /\ Len(created_log) < MaxEvents
  /\ LET inp == [ alert_type |-> <<"emergency">>, severity |-> "critical",
                  camera_id |-> Some(camera_id), location |-> None ]
     IN created_log' = Recorded("emergency", inp, FreshCreate(inp))
  /\ UNCHANGED << now, active_alerts, alert_cooldowns, in_flight, log, ret, ops,
                  api_response >>
  /\ UNCHANGED << bioVars, notifVars >>
  /\ UNCHANGED << query, cams, login_response >>

\* POST /alerts/
ApiCreateAlert(inp, permitted) ==
  /\ Len(created_log) < MaxEvents
  /\ IF ~permitted
       THEN /\ api_response' = [ op |-> "create", alert_id |-> None,
                                 status_code |-> Responded(403) ]
            /\ UNCHANGED created_log
       ELSE LET r == FreshCreate(inp)
            IN /\ created_log' = Recorded("api", inp, r)
               /\ api_response' =
                    IF r.alert = None
                      THEN [ op |-> "create", alert_id |-> None,
                             status_code |-> Responded(400) ]
                      ELSE [ op |-> "create", alert_id |-> r.alert[1].id,
                             status_code |-> 200 ]
  /\ UNCHANGED << now, active_alerts, alert_cooldowns, in_flight, log, ret, ops >>
  /\ UNCHANGED << bioVars, notifVars >>
  /\ UNCHANGED << query, cams, login_response >>

\* GET /alerts/{alert_id}
ApiGetAlert(id) ==
  /\ api_response' =
       [ op |-> "get", alert_id |-> Some(id),
         status_code |-> IF id \in DOMAIN EmptyStore
                           THEN 200 ELSE Responded(404) ]
  /\ UNCHANGED << now, active_alerts, alert_cooldowns, in_flight, log, ret, ops,
                  created_log >>
  /\ UNCHANGED << bioVars, notifVars >>
  /\ UNCHANGED << query, cams, login_response >>

\* POST /alerts/{alert_id}/acknowledge
ApiAcknowledgeAlert(id, user) ==
  /\ LET r == AcknowledgeAlertOn(EmptyStore, id, user, now)
     IN api_response' =
          [ op |-> "acknowledge", alert_id |-> Some(id),
            status_code |-> IF r.result THEN 200 ELSE Responded(404) ]
  /\ UNCHANGED << now, active_alerts, alert_cooldowns, in_flight, log, ret, ops,
                  created_log >>
  /\ UNCHANGED << bioVars, notifVars >>
  /\ UNCHANGED << query, cams, login_response >>

\* POST /alerts/{alert_id}/resolve
ApiResolveAlert(id, user) ==
  /\ LET r == ResolveAlertOn(EmptyStore, id, user, now)
     IN api_response' =
          [ op |-> "resolve", alert_id |-> Some(id),
            status_code |-> IF r.result THEN 200 ELSE Responded(404) ]
  /\ UNCHANGED << now, active_alerts, alert_cooldowns, in_flight, log, ret, ops,
                  created_log >>
  /\ UNCHANGED << bioVars, notifVars >>
  /\ UNCHANGED << query, cams, login_response >>

\* calls on one AlertService instance
Next ==
  \/ Tick
  \/ \E inp \in CreateInputs : CreateAlertCall(inp)
  \/ \E obj \in in_flight : SendNotifications(obj)
  \/ \E id \in AlertIds, user \in Users : AcknowledgeAlert(id, user)
  \/ \E id \in AlertIds, user \in Users : ResolveAlert(id, user)
  \/ \E id \in AlertIds, kw \in UpdateInputs : UpdateAlert(id, kw)
  \/ \E d \in RetentionInputs : CleanupOldAlerts(d)
  \/ Cleanup

Spec == Init /\ [][Next]_vars

\* create, acknowledge, resolve and retention pruning on one instance
NextLifecycle ==
  \/ Tick
  \/ \E inp \in CreateInputs : CreateAlertCall(inp)
  \/ \E obj \in in_flight : SendNotifications(obj)
  \/ \E id \in AlertIds, user \in Users : AcknowledgeAlert(id, user)
  \/ \E id \in AlertIds, user \in Users : ResolveAlert(id, user)
  \/ \E d \in RetentionInputs : CleanupOldAlerts(d)

SpecLifecycle == Init /\ [][NextLifecycle]_vars

\* credentials a client may post to /login
Usernames == { "admin", "invalid" }

Passwords == { "password", "invalid" }

\* POST /login: the simulated credential check answers with a token; the
\* HTTPException(401) of the else branch is raised inside the try block, so
\* the handler's own except Exception catches it and raises the 500
Login(username, password) ==
  IF username = "admin" /\ password = "password"
  THEN [ status_code |-> 200, username |-> username, password |-> password,
         access_token |-> Some("simulated_jwt_token"),
         token_type |-> Some("bearer"),
         expires_in |-> Some(ACCESS_TOKEN_EXPIRE_MINUTES * 60),
         detail |-> None ]
  ELSE [ status_code |-> 500, username |-> username, password |-> password,
         access_token |-> None, token_type |-> None, expires_in |-> None,
         detail |-> Some("Login failed") ]

ApiLogin(username, password) ==
  /\ login_response' = Login(username, password)
  /\ UNCHANGED << now, active_alerts, alert_cooldowns, in_flight, log, ret,
                  ops, created_log, api_response, bioVars, notifVars,
                  query, cams >>

\* detections handled by the camera loops and requests to the alert API
NextPipeline ==
  \/ \E u \in Usernames, p \in Passwords : ApiLogin(u, p)
  \/ Tick
  \/ \E c \in Cameras : HandleMotionEvent(c)
  \/ \E c \in Cameras : HandleEmergencyEvent(c)
  \/ \E inp \in CreateInputs, permitted \in BOOLEAN : ApiCreateAlert(inp, permitted)
  \/ \E id \in AlertIds : ApiGetAlert(id)
  \/ \E id \in AlertIds, user \in Users : ApiAcknowledgeAlert(id, user)
  \/ \E id \in AlertIds, user \in Users : ApiResolveAlert(id, user)

SpecPipeline == Init /\ [][NextPipeline]_vars

\* ------------------------------------------------------ biometric matching
MaxEnrolled == 2

\* user ids accepted by the register endpoints (user_id: int)
BioUsers == {0, 1, 2}

\* a face encoding is a point on a line, in hundredths
FaceEncodings == {0, 30, 90}

\* an image is the list of face encodings face_recognition finds in it
FaceImages == { << >> } \cup { << e >> : e \in FaceEncodings }

FingerprintData == {"fa", "fb"}

IrisImages == {"ia", "ib"}

UserIdInputs == { None } \cup { Some(u) : u \in BioUsers }

\* settings.FACE_RECOGNITION_TOLERANCE, 0.6
FACE_RECOGNITION_TOLERANCE == 60

\* average_confidence >= 0.7
FusionThreshold == 70

IRIS_RECOGNITION_ENABLED == TRUE

\* variance > 100
LivenessVariance == 100

\* k in d
DictHas(d, k) == \E i \in DOMAIN d : d[i][1] = k

\* d[k]
DictGet(d, k) == d[CHOOSE i \in DOMAIN d : d[i][1] = k][2]

\* d[k] = v: an existing key keeps its position, a new key goes last
DictSet(d, k, v) ==
  IF DictHas(d, k)
    THEN [ i \in DOMAIN d |-> IF d[i][1] = k THEN << k, v >> ELSE d[i] ]
    ELSE Append(d, << k, v >>)

\* truth value of an Optional[int]: None and 0 are false
Truthy(user_id) == user_id # None /\ user_id[1] # 0

\* face_recognition.face_distance on one-dimensional encodings
FaceDistance(a, b) == IF a >= b THEN a - b ELSE b - a

\* hashlib.sha256(data).hexdigest(): distinct data, distinct digests
Sha256(data) == << "sha256", data >>

\* a result dict; .get of an absent user_id is None
AuthResult(success, user_id, confidence, error) ==
  [ success |-> success, user_id |-> user_id, confidence |-> confidence,
    error |-> error ]

\* the search loop of authenticate_face over the cache in storage order
RECURSIVE FaceSearch(_, _, _, _, _)
FaceSearch(cache, i, unknown, best_match, best_confidence) ==
  IF i > Len(cache)
    THEN [ best_match |-> best_match, best_confidence |-> best_confidence ]
    ELSE LET distance == FaceDistance(cache[i][2], unknown)
             confidence == 100 - distance
         IN IF distance <= FACE_RECOGNITION_TOLERANCE
               /\ confidence > best_confidence
              THEN FaceSearch(cache, i + 1, unknown, Some(cache[i][1]),
                              confidence)
              ELSE FaceSearch(cache, i + 1, unknown, best_match,
                              best_confidence)

\* BiometricService.authenticate_face
AuthenticateFace(cache, image, user_id) ==
  IF image = << >>
    THEN AuthResult(FALSE, None, 0, "No face detected in image")
    ELSE
      LET unknown == image[1] IN
      IF Truthy(user_id) /\ DictHas(cache, user_id[1])
        THEN LET distance == FaceDistance(DictGet(cache, user_id[1]), unknown)
                 is_match == distance <= FACE_RECOGNITION_TOLERANCE
             IN AuthResult(is_match, IF is_match THEN user_id ELSE None,
                           100 - distance, "")
        ELSE LET best == FaceSearch(cache, 1, unknown, None, 0)
             IN IF Truthy(best.best_match)
                  THEN AuthResult(TRUE, best.best_match,
                                  best.best_confidence, "")
                  ELSE AuthResult(FALSE, None, 0, "Face not recognized")

\* the search loop shared by authenticate_fingerprint and authenticate_iris:
\* the first stored template equal to the hash
RECURSIVE FirstMatch(_, _, _)
FirstMatch(cache, i, hash) ==
  IF i > Len(cache) THEN None
  ELSE IF cache[i][2] = hash THEN Some(cache[i][1])
  ELSE FirstMatch(cache, i + 1, hash)

\* the body shared by authenticate_fingerprint and authenticate_iris
AuthenticateHash(cache, hash, user_id, not_recognized) ==
  IF Truthy(user_id) /\ DictHas(cache, user_id[1])
    THEN LET is_match == hash = DictGet(cache, user_id[1])
         IN AuthResult(is_match, IF is_match THEN user_id ELSE None,
                       IF is_match THEN 100 ELSE 0, "")
    ELSE LET found == FirstMatch(cache, 1, hash)
         IN IF found # None
              THEN AuthResult(TRUE, found, 100, "")
              ELSE AuthResult(FALSE, None, 0, not_recognized)

\* BiometricService.authenticate_fingerprint
AuthenticateFingerprint(cache, fingerprint_data, user_id) ==
  AuthenticateHash(cache, Sha256(fingerprint_data), user_id,
                   "Fingerprint not recognized")

\* BiometricService.authenticate_iris
AuthenticateIris(cache, iris_image, user_id) ==
  AuthenticateHash(cache, Sha256(iris_image), user_id, "Iris not recognized")

\* result.get("error")
ErrorOf(result) == IF "error" \in DOMAIN result THEN result.error ELSE ""

MismatchError == "Biometric data mismatch between modalities"

\* multi_modal_authentication before any modality ran
FusionStart ==
  [ results |-> << >>, total_confidence |-> 0,
    authenticated_user_id |-> None, mismatch |-> FALSE ]

\* the face block of multi_modal_authentication
AbsorbFace(acc, r) ==
  IF r.success
    THEN [ acc EXCEPT !.results = Append(acc.results, r),
                      !.total_confidence = acc.total_confidence + r.confidence,
                      !.authenticated_user_id = r.user_id ]
    ELSE [ acc EXCEPT !.results = Append(acc.results, r) ]

Absorb_TakeLast(acc, r) ==
  IF acc.mismatch THEN acc
  ELSE IF ~r.success
    THEN [ acc EXCEPT !.results = Append(acc.results, r) ]
  ELSE [ acc EXCEPT !.results = Append(acc.results, r),
                    !.total_confidence = acc.total_confidence + r.confidence,
                    !.authenticated_user_id = r.user_id ]

Absorb_KeepFirst(acc, r) ==
  IF acc.mismatch THEN acc
  ELSE IF ~r.success
    THEN [ acc EXCEPT !.results = Append(acc.results, r) ]
  ELSE IF acc.authenticated_user_id = None
    THEN [ acc EXCEPT !.results = Append(acc.results, r),
                      !.total_confidence = acc.total_confidence + r.confidence,
                      !.authenticated_user_id = r.user_id ]
  ELSE [ acc EXCEPT !.results = Append(acc.results, r),
                    !.total_confidence = acc.total_confidence + r.confidence ]

\* the fingerprint block and the iris block of multi_modal_authentication;
\* after a mismatch the function has returned and nothing more runs
Absorb(acc, r) ==
  IF acc.mismatch THEN acc
  ELSE IF ~r.success
    THEN [ acc EXCEPT !.results = Append(acc.results, r) ]
  ELSE IF acc.authenticated_user_id = None
    THEN [ acc EXCEPT !.results = Append(acc.results, r),
                      !.total_confidence = acc.total_confidence + r.confidence,
                      !.authenticated_user_id = r.user_id ]
  ELSE IF acc.authenticated_user_id # r.user_id
    THEN [ acc EXCEPT !.results = Append(acc.results, r),
                      !.total_confidence = acc.total_confidence + r.confidence,
                      !.mismatch = TRUE ]
  ELSE [ acc EXCEPT !.results = Append(acc.results, r),
                    !.total_confidence = acc.total_confidence + r.confidence ]

\* number of successful results
Successes(results) ==
  Cardinality({ i \in DOMAIN results : results[i].success })

\* the final block of multi_modal_authentication
FusionResult(acc) ==
  IF acc.mismatch
    THEN [ success |-> FALSE, error |-> MismatchError ]
    ELSE
      LET successful_authentications == Successes(acc.results)
          average_confidence ==
            IF Len(acc.results) > 0
              THEN acc.total_confidence \div Len(acc.results)
              ELSE 0
          is_authenticated ==
            /\ successful_authentications > 0
            /\ average_confidence >= FusionThreshold
            /\ acc.authenticated_user_id # None
      IN [ success |-> is_authenticated,
           user_id |-> acc.authenticated_user_id,
           confidence |-> average_confidence,
           successful_modalities |-> successful_authentications,
           total_modalities |-> Len(acc.results),
           detailed_results |-> acc.results ]

\* BiometricService.multi_modal_authentication; an absent sample is None
MultiModalAuthentication(faces, prints, irises, face_image, fingerprint_data, iris_image, user_id) ==
  LET a1 == IF face_image # None
              THEN AbsorbFace(FusionStart,
                     AuthenticateFace(faces, face_image[1], user_id))
              ELSE FusionStart
      a2 == IF fingerprint_data # None
              THEN Absorb(a1,
                     AuthenticateFingerprint(prints, fingerprint_data[1],
                                             user_id))
              ELSE a1
      a3 == IF iris_image # None /\ IRIS_RECOGNITION_ENABLED
              THEN Absorb(a2, AuthenticateIris(irises, iris_image[1], user_id))
              ELSE a2
  IN FusionResult(a3)

\* number of templates held by the service
Enrolled ==
  Len(face_encodings_cache) + Len(fingerprint_templates_cache)
    + Len(iris_templates_cache)

\* The authenticate calls read the caches and write nothing, so every call
\* is explored from the states the registrations produce: the last call on
\* the service was a registration, or there was none.
AfterRegistration ==
  auth.op \in { "none", "register_face", "register_fingerprint",
                "register_iris" }

\* a registration that adds a template fits the bound
MayRegister(cache, user_id) ==
  /\ AfterRegistration
  /\ DictHas(cache, user_id) \/ Enrolled < MaxEnrolled

\* BiometricService.register_face
RegisterFace(user_id, image) ==
  /\ MayRegister(face_encodings_cache, user_id)
  /\ IF image = << >>
       THEN /\ UNCHANGED face_encodings_cache
            /\ auth' = [ op |-> "register_face", user_id |-> Some(user_id),
                         result |-> [ success |-> FALSE ] ]
       ELSE /\ face_encodings_cache' =
                 DictSet(face_encodings_cache, user_id, image[1])
            /\ auth' = [ op |-> "register_face", user_id |-> Some(user_id),
                         result |-> [ success |-> TRUE ] ]
  /\ UNCHANGED << fingerprint_templates_cache, iris_templates_cache,
                  bio_response >>
  /\ UNCHANGED << now, active_alerts, alert_cooldowns, in_flight, log, ret,
                  ops, created_log, api_response, notifVars >>
  /\ UNCHANGED << query, cams, login_response >>

\* BiometricService.register_fingerprint
RegisterFingerprint(user_id, fingerprint_data) ==
  /\ MayRegister(fingerprint_templates_cache, user_id)
  /\ fingerprint_templates_cache' =
       DictSet(fingerprint_templates_cache, user_id, Sha256(fingerprint_data))
  /\ auth' = [ op |-> "register_fingerprint", user_id |-> Some(user_id),
               result |-> [ success |-> TRUE ] ]
  /\ UNCHANGED << face_encodings_cache, iris_templates_cache, bio_response >>
  /\ UNCHANGED << now, active_alerts, alert_cooldowns, in_flight, log, ret,
                  ops, created_log, api_response, notifVars >>
  /\ UNCHANGED << query, cams, login_response >>

\* BiometricService.register_iris
RegisterIris(user_id, iris_image) ==
  /\ MayRegister(iris_templates_cache, user_id)
  /\ iris_templates_cache' =
       DictSet(iris_templates_cache, user_id, Sha256(iris_image))
  /\ auth' = [ op |-> "register_iris", user_id |-> Some(user_id),
               result |-> [ success |-> TRUE ] ]
  /\ UNCHANGED << face_encodings_cache, fingerprint_templates_cache,
                  bio_response >>
  /\ UNCHANGED << now, active_alerts, alert_cooldowns, in_flight, log, ret,
                  ops, created_log, api_response, notifVars >>
  /\ UNCHANGED << query, cams, login_response >>

\* a call of authenticate_face on the service
AuthenticateFaceCall(image, user_id) ==
  /\ AfterRegistration
  /\ auth' = [ op |-> "authenticate_face", sample |-> image,
               user_id |-> user_id,
               result |-> AuthenticateFace(face_encodings_cache, image,
                                           user_id) ]
  /\ UNCHANGED << face_encodings_cache, fingerprint_templates_cache,
                  iris_templates_cache, bio_response >>
  /\ UNCHANGED << now, active_alerts, alert_cooldowns, in_flight, log, ret,
                  ops, created_log, api_response, notifVars >>
  /\ UNCHANGED << query, cams, login_response >>

\* a call of authenticate_fingerprint on the service
AuthenticateFingerprintCall(fingerprint_data, user_id) ==
  /\ AfterRegistration
  /\ auth' = [ op |-> "authenticate_fingerprint",
               sample |-> fingerprint_data, user_id |-> user_id,
               result |-> AuthenticateFingerprint(fingerprint_templates_cache,
                                                  fingerprint_data, user_id) ]
  /\ UNCHANGED << face_encodings_cache, fingerprint_templates_cache,
                  iris_templates_cache, bio_response >>
  /\ UNCHANGED << now, active_alerts, alert_cooldowns, in_flight, log, ret,
                  ops, created_log, api_response, notifVars >>
  /\ UNCHANGED << query, cams, login_response >>

\* a call of authenticate_iris on the service
AuthenticateIrisCall(iris_image, user_id) ==
  /\ AfterRegistration
  /\ auth' = [ op |-> "authenticate_iris", sample |-> iris_image,
               user_id |-> user_id,
               result |-> AuthenticateIris(iris_templates_cache, iris_image,
                                           user_id) ]
  /\ UNCHANGED << face_encodings_cache, fingerprint_templates_cache,
                  iris_templates_cache, bio_response >>
  /\ UNCHANGED << now, active_alerts, alert_cooldowns, in_flight, log, ret,
                  ops, created_log, api_response, notifVars >>
  /\ UNCHANGED << query, cams, login_response >>

\* a call of multi_modal_authentication on the service
MultiModalCall(face_image, fingerprint_data, iris_image, user_id) ==
  /\ AfterRegistration
  /\ auth' = [ op |-> "multi_modal", face_image |-> face_image,
               fingerprint_data |-> fingerprint_data,
               iris_image |-> iris_image, user_id |-> user_id,
               result |-> MultiModalAuthentication(face_encodings_cache,
                            fingerprint_templates_cache, iris_templates_cache,
                            face_image, fingerprint_data, iris_image,
                            user_id) ]
  /\ UNCHANGED << face_encodings_cache, fingerprint_templates_cache,
                  iris_templates_cache, bio_response >>
  /\ UNCHANGED << now, active_alerts, alert_cooldowns, in_flight, log, ret,
                  ops, created_log, api_response, notifVars >>
  /\ UNCHANGED << query, cams, login_response >>

\* an optional sample drawn from a set
Opt(S) == { None } \cup { Some(x) : x \in S }

\* registrations and authentications on one BiometricService instance
NextBiometric ==
  \/ \E u \in BioUsers, image \in FaceImages : RegisterFace(u, image)
  \/ \E u \in BioUsers, d \in FingerprintData : RegisterFingerprint(u, d)
  \/ \E u \in BioUsers, image \in IrisImages : RegisterIris(u, image)
  \/ \E image \in FaceImages, u \in UserIdInputs :
       AuthenticateFaceCall(image, u)
  \/ \E d \in FingerprintData, u \in UserIdInputs :
       AuthenticateFingerprintCall(d, u)
  \/ \E image \in IrisImages, u \in UserIdInputs :
       AuthenticateIrisCall(image, u)
  \/ \E f \in Opt(FaceImages), d \in Opt(FingerprintData),
        i \in Opt(IrisImages), u \in UserIdInputs :
       MultiModalCall(f, d, i, u)

SpecBiometric == Init /\ [][NextBiometric]_vars

\* ---------------------------------------------------- biometric entry points

\* cv2.Laplacian(gray).var() of an uploaded image, below and above the
\* liveness threshold
Variances == {50, 150}

\* an uploaded image: what the matcher sees in it and its Laplacian variance
ApiFaceImages == [ content : { << >>, << 0 >> }, variance : Variances ]

ApiIrisImages == [ content : { "ia" }, variance : Variances ]

LoginMethods == { "multi_modal", "face", "fingerprint", "iris" }

RegisterMethods == { "face", "fingerprint", "iris" }

\* BiometricService.detect_liveness(image)["is_live"]
DetectLiveness(image) == image.variance > LivenessVariance

\* the caches of the BiometricService() built for one request
FreshCache == << >>

\* the content of an optional upload
ContentOf(upload) == IF upload = None THEN None ELSE Some(upload[1].content)

\* what an endpoint did with a request: the face and iris uploads (None
\* when absent), the service methods it called, and its answer
BioResponse(endpoint, face_image, iris_image, user_id, calls, success, error) ==
  [ endpoint |-> endpoint, face_image |-> face_image,
    iris_image |-> iris_image, user_id |-> user_id, calls |-> calls,
    success |-> success, error |-> error ]

\* POST /register/face
ApiRegisterFace(user_id, face_image) ==
  /\ bio_response' =
       IF ~DetectLiveness(face_image)
         THEN BioResponse("/register/face", Some(face_image), None,
                          Some(user_id),
                          << "detect_liveness" >>, FALSE,
                          "Liveness check failed")
         ELSE BioResponse("/register/face", Some(face_image), None,
                          Some(user_id),
                          << "detect_liveness", "register_face" >>,
                          face_image.content # << >>, "")
  /\ UNCHANGED << face_encodings_cache, fingerprint_templates_cache,
                  iris_templates_cache, auth >>
  /\ UNCHANGED << now, active_alerts, alert_cooldowns, in_flight, log, ret,
                  ops, created_log, api_response, notifVars >>
  /\ UNCHANGED << query, cams, login_response >>

\* POST /register/iris
ApiRegisterIris(user_id, iris_image) ==
  /\ bio_response' =
       BioResponse("/register/iris", None, Some(iris_image),
                   Some(user_id), << "register_iris" >>,
                   DictHas(DictSet(FreshCache, user_id,
                                   Sha256(iris_image.content)), user_id),
                   "")
  /\ UNCHANGED << face_encodings_cache, fingerprint_templates_cache,
                  iris_templates_cache, auth >>
  /\ UNCHANGED << now, active_alerts, alert_cooldowns, in_flight, log, ret,
                  ops, created_log, api_response, notifVars >>
  /\ UNCHANGED << query, cams, login_response >>

\* POST /authenticate/face
ApiAuthenticateFace(face_image, user_id) ==
  /\ bio_response' =
       IF ~DetectLiveness(face_image)
         THEN BioResponse("/authenticate/face", Some(face_image),
                             None, user_id,
                          << "detect_liveness" >>, FALSE,
                          "Liveness check failed")
         ELSE LET result == AuthenticateFace(FreshCache, face_image.content,
                                             user_id)
              IN BioResponse("/authenticate/face", Some(face_image),
                             None, user_id,
                             << "detect_liveness", "authenticate_face" >>,
                             result.success, result.error)
  /\ UNCHANGED << face_encodings_cache, fingerprint_templates_cache,
                  iris_templates_cache, auth >>
  /\ UNCHANGED << now, active_alerts, alert_cooldowns, in_flight, log, ret,
                  ops, created_log, api_response, notifVars >>
  /\ UNCHANGED << query, cams, login_response >>

\* POST /authenticate/iris
ApiAuthenticateIris(iris_image, user_id) ==
  /\ LET result == AuthenticateIris(FreshCache, iris_image.content, user_id)
     IN bio_response' =
          BioResponse("/authenticate/iris", None, Some(iris_image),
                      user_id,
                      << "authenticate_iris" >>, result.success, result.error)
  /\ UNCHANGED << face_encodings_cache, fingerprint_templates_cache,
                  iris_templates_cache, auth >>
  /\ UNCHANGED << now, active_alerts, alert_cooldowns, in_flight, log, ret,
                  ops, created_log, api_response, notifVars >>
  /\ UNCHANGED << query, cams, login_response >>

\* POST /authenticate/multi-modal
ApiAuthenticateMultiModal(face_image, fingerprint_image, iris_image, user_id) ==
  /\ LET result == MultiModalAuthentication(FreshCache, FreshCache, FreshCache,
                     ContentOf(face_image), fingerprint_image,
                     ContentOf(iris_image), user_id)
     IN bio_response' =
          BioResponse("/authenticate/multi-modal", face_image, iris_image,
                      user_id,
                      << "multi_modal_authentication" >>, result.success,
                      ErrorOf(result))
  /\ UNCHANGED << face_encodings_cache, fingerprint_templates_cache,
                  iris_templates_cache, auth >>
  /\ UNCHANGED << now, active_alerts, alert_cooldowns, in_flight, log, ret,
                  ops, created_log, api_response, notifVars >>
  /\ UNCHANGED << query, cams, login_response >>

\* POST /biometric/login with the upload its method reads present
ApiBiometricLogin(method, face_image, fingerprint_data, iris_image, user_id) ==
  /\ method = "face" => face_image # None
  /\ method = "fingerprint" => fingerprint_data # None
  /\ method = "iris" => iris_image # None
  /\ LET auth_result ==
           CASE method = "multi_modal" ->
                  MultiModalAuthentication(FreshCache, FreshCache, FreshCache,
                    ContentOf(face_image), fingerprint_data,
                    ContentOf(iris_image), user_id)
             [] method = "face" ->
                  AuthenticateFace(FreshCache, face_image[1].content, user_id)
             [] method = "fingerprint" ->
                  AuthenticateFingerprint(FreshCache, fingerprint_data[1],
                                          user_id)
             [] method = "iris" ->
                  AuthenticateIris(FreshCache, iris_image[1].content, user_id)
         call ==
           CASE method = "multi_modal" -> "multi_modal_authentication"
             [] method = "face" -> "authenticate_face"
             [] method = "fingerprint" -> "authenticate_fingerprint"
             [] method = "iris" -> "authenticate_iris"
     IN bio_response' =
          BioResponse("/biometric/login", face_image, iris_image, user_id,
                      << call >>, auth_result.success,
                      IF auth_result.success THEN ""
                      ELSE "Biometric authentication failed")
  /\ UNCHANGED << face_encodings_cache, fingerprint_templates_cache,
                  iris_templates_cache, auth >>
  /\ UNCHANGED << now, active_alerts, alert_cooldowns, in_flight, log, ret,
                  ops, created_log, api_response, notifVars >>
  /\ UNCHANGED << query, cams, login_response >>

\* POST /biometric/register
ApiRegisterBiometric(method, user_id, face_image, fingerprint_data, iris_image) ==
  /\ bio_response' =
       IF method = "face" /\ face_image # None
         THEN BioResponse("/biometric/register", face_image, iris_image,
                          Some(user_id),
                          << "register_face" >>,
                          face_image[1].content # << >>,
                          IF face_image[1].content # << >> THEN ""
                          ELSE "Biometric registration failed")
       ELSE IF method = "fingerprint" /\ fingerprint_data # None
         THEN BioResponse("/biometric/register", face_image, iris_image,
                          Some(user_id),
                          << "register_fingerprint" >>, TRUE, "")
       ELSE IF method = "iris" /\ iris_image # None
         THEN BioResponse("/biometric/register", face_image, iris_image,
                          Some(user_id),
                          << "register_iris" >>, TRUE, "")
       ELSE BioResponse("/biometric/register", face_image, iris_image,
                          Some(user_id), << >>, FALSE,
                        "Biometric registration failed")
  /\ UNCHANGED << face_encodings_cache, fingerprint_templates_cache,
                  iris_templates_cache, auth >>
  /\ UNCHANGED << now, active_alerts, alert_cooldowns, in_flight, log, ret,
                  ops, created_log, api_response, notifVars >>
  /\ UNCHANGED << query, cams, login_response >>

\* requests to the biometric endpoints that take face or iris images
NextBiometricApi ==
  \/ \E u \in BioUsers, f \in ApiFaceImages : ApiRegisterFace(u, f)
  \/ \E u \in BioUsers, i \in ApiIrisImages : ApiRegisterIris(u, i)
  \/ \E f \in ApiFaceImages, u \in UserIdInputs : ApiAuthenticateFace(f, u)
  \/ \E i \in ApiIrisImages, u \in UserIdInputs : ApiAuthenticateIris(i, u)
  \/ \E f \in Opt(ApiFaceImages), d \in Opt(FingerprintData),
        i \in Opt(ApiIrisImages), u \in UserIdInputs :
       ApiAuthenticateMultiModal(f, d, i, u)
  \/ \E m \in LoginMethods, f \in Opt(ApiFaceImages),
        d \in Opt(FingerprintData), i \in Opt(ApiIrisImages),
        u \in UserIdInputs :
       ApiBiometricLogin(m, f, d, i, u)
  \/ \E m \in RegisterMethods, u \in BioUsers, f \in Opt(ApiFaceImages),
        d \in Opt(FingerprintData), i \in Opt(ApiIrisImages) :
       ApiRegisterBiometric(m, u, f, d, i)

SpecBiometricApi == Init /\ [][NextBiometricApi]_vars

\* ------------------------------------------------------ notification fan-out

\* the addresses of ALERT_EMAIL_RECIPIENTS and the numbers of
\* ALERT_SMS_RECIPIENTS when they are set
EmailRecipients == << "a@x", "b@x" >>

SmsRecipients == << "+1", "+2" >>

\* deployments: the channel switches of app/core/config.py, the recipient
\* lists of the NotificationService, and whether the SMS API key and URL
\* are set
SettingsInputs ==
  [ EMAIL_ENABLED : BOOLEAN, SMS_ENABLED : BOOLEAN,
    WEBHOOK_URL : { None, Some("https://hook") },
    email_recipients : { << >>, EmailRecipients },
    sms_recipients : { << >>, SmsRecipients },
    sms_api : BOOLEAN ]

\* what the SMTP server does with one message: accepts it, or smtplib raises
EmailOutcomes == { "sent", "raised" }

\* what an HTTP post does: status 200, another status, or httpx raises
PostOutcomes == { "sent", "rejected", "raised" }

\* one send: the channel, the recipient and what the transport did
Attempt(channel, recipient, outcome) ==
  [ channel |-> channel, recipient |-> recipient, outcome |-> outcome ]

\* what a channel function hands back to _send_notifications: its return
\* value, the sends it made, and whether an exception left it
ChannelResult(result, attempts, raised) ==
  [ result |-> result, attempts |-> attempts, raised |-> raised ]

SendToAll_StopAtFailure(channel, recipients, outcomes, i) ==
  LET RECURSIVE Loop(_)
      Loop(k) ==
        IF k > Len(recipients) THEN << >>
        ELSE IF outcomes[k] = "raised"
          THEN << Attempt(channel, recipients[k], outcomes[k]) >>
          ELSE << Attempt(channel, recipients[k], outcomes[k]) >> \o Loop(k + 1)
  IN Loop(i)

\* the recipient loop of send_email_alert and of send_sms_alert: an
\* exception for one recipient is logged and the loop continues
SendToAll(channel, recipients, outcomes, i) ==
  LET RECURSIVE Loop(_)
      Loop(k) ==
        IF k > Len(recipients) THEN << >>
        ELSE << Attempt(channel, recipients[k], outcomes[k]) >> \o Loop(k + 1)
  IN Loop(i)

\* NotificationService.send_email_alert
SendEmailAlert(cfg, outcomes) ==
  IF ~cfg.EMAIL_ENABLED \/ cfg.email_recipients = << >>
    THEN ChannelResult(FALSE, << >>, FALSE)
    ELSE ChannelResult(TRUE,
           SendToAll("email", cfg.email_recipients, outcomes, 1), FALSE)

\* NotificationService._send_sms: without the API key or URL it returns
\* before any post
SendSms(cfg, outcome) == IF ~cfg.sms_api THEN "unconfigured" ELSE outcome

\* NotificationService.send_sms_alert
SendSmsAlert(cfg, outcomes) ==
  IF ~cfg.SMS_ENABLED \/ cfg.sms_recipients = << >>
    THEN ChannelResult(FALSE, << >>, FALSE)
    ELSE ChannelResult(TRUE,
           SendToAll("sms", cfg.sms_recipients,
                     [ k \in DOMAIN outcomes |-> SendSms(cfg, outcomes[k]) ],
                     1),
           FALSE)

SendWebhookAlert_Reraises(cfg, outcome) ==
  IF cfg.WEBHOOK_URL = None
    THEN ChannelResult(FALSE, << >>, FALSE)
    ELSE ChannelResult(outcome = "sent",
           << Attempt("webhook", cfg.WEBHOOK_URL[1], outcome) >>,
           outcome = "raised")

\* NotificationService.send_webhook_alert
SendWebhookAlert(cfg, outcome) ==
  IF cfg.WEBHOOK_URL = None
    THEN ChannelResult(FALSE, << >>, FALSE)
    ELSE ChannelResult(outcome = "sent",
           << Attempt("webhook", cfg.WEBHOOK_URL[1], outcome) >>, FALSE)

\* NotificationService.send_push_notification
SendPushNotification ==
  ChannelResult(TRUE, << Attempt("push", "", "logged") >>, FALSE)

\* the stage of _send_notifications after a channel call: an exception
\* leaving the call lands in the except clause, which ends the fan-out
StageAfter(r, next) == IF r.raised THEN "done" ELSE next

ReturnOf_NoneWhenUndelivered(f) ==
  IF f.email_sent \/ f.sms_sent \/ f.webhook_sent THEN Some(f.obj) ELSE None

\* return alert
ReturnOf(f) == Some(f.obj)

\* a deployment with any of the settings
InitNotify ==
  /\ now = 0
  /\ active_alerts = EmptyStore
  /\ alert_cooldowns = EmptyCooldowns
  /\ in_flight = {}
  /\ log = << >>
  /\ ret = [ op |-> "none", alert_id |-> 0, user |-> 0, result |-> FALSE ]
  /\ ops = 0
  /\ created_log = << >>
  /\ api_response = [ op |-> "none", alert_id |-> None, status_code |-> 0 ]
  /\ face_encodings_cache = << >>
  /\ fingerprint_templates_cache = << >>
  /\ iris_templates_cache = << >>
  /\ auth = [ op |-> "none" ]
  /\ bio_response = [ endpoint |-> "none" ]
  /\ nsettings \in SettingsInputs
  /\ fan = FanIdle
  /\ query = [ op |-> "none" ]
  /\ cams = [ c \in CameraIds |-> NoCamera ]
  /\ login_response = NoLogin

\* create_alert up to the first channel call of _send_notifications; a
\* suppressed call returns None at once
CreateAlertNotify(inp) ==
  /\ fan.stage \in { "idle", "returned" }
  /\ Len(log) < MaxCalls
  /\ LET obj == Len(log) + 1
         r == CreateAlert(active_alerts, alert_cooldowns, inp, obj, now)
     IN /\ active_alerts' = r.store
        /\ alert_cooldowns' = r.cooldowns
        /\ log' = Append(log, [ inp |-> inp, at |-> now, alert |-> r.alert ])
        /\ IF r.alert = None
             THEN /\ fan' = [ FanIdle EXCEPT !.stage = "returned" ]
                  /\ UNCHANGED in_flight
             ELSE /\ fan' = [ FanIdle EXCEPT !.stage = "email", !.obj = obj ]
                  /\ in_flight' = in_flight \cup { obj }
  /\ UNCHANGED << now, ret, ops, created_log, api_response, bioVars,
                  nsettings >>
  /\ UNCHANGED << query, cams, login_response >>

\* if settings.EMAIL_ENABLED: alert.email_sent = await send_email_alert(...)
NotifyEmail(outcomes) ==
  /\ fan.stage = "email"
  /\ IF nsettings.EMAIL_ENABLED
       THEN LET r == SendEmailAlert(nsettings, outcomes)
            IN fan' = [ fan EXCEPT !.email_sent = r.result,
                                   !.attempts = fan.attempts \o r.attempts,
                                   !.stage = StageAfter(r, "sms") ]
       ELSE fan' = [ fan EXCEPT !.stage = "sms" ]
  /\ UNCHANGED << now, active_alerts, alert_cooldowns, in_flight, log, ret,
                  ops, created_log, api_response, bioVars, nsettings >>
  /\ UNCHANGED << query, cams, login_response >>

\* if settings.SMS_ENABLED: alert.sms_sent = await send_sms_alert(...)
NotifySms(outcomes) ==
  /\ fan.stage = "sms"
  /\ IF nsettings.SMS_ENABLED
       THEN LET r == SendSmsAlert(nsettings, outcomes)
            IN fan' = [ fan EXCEPT !.sms_sent = r.result,
                                   !.attempts = fan.attempts \o r.attempts,
                                   !.stage = StageAfter(r, "webhook") ]
       ELSE fan' = [ fan EXCEPT !.stage = "webhook" ]
  /\ UNCHANGED << now, active_alerts, alert_cooldowns, in_flight, log, ret,
                  ops, created_log, api_response, bioVars, nsettings >>
  /\ UNCHANGED << query, cams, login_response >>

\* if settings.WEBHOOK_URL: alert.webhook_sent = await send_webhook_alert(...)
NotifyWebhook(outcome) ==
  /\ fan.stage = "webhook"
  /\ IF nsettings.WEBHOOK_URL # None
       THEN LET r == SendWebhookAlert(nsettings, outcome)
            IN fan' = [ fan EXCEPT !.webhook_sent = r.result,
                                   !.attempts = fan.attempts \o r.attempts,
                                   !.stage = StageAfter(r, "push") ]
       ELSE fan' = [ fan EXCEPT !.stage = "push" ]
  /\ UNCHANGED << now, active_alerts, alert_cooldowns, in_flight, log, ret,
                  ops, created_log, api_response, bioVars, nsettings >>
  /\ UNCHANGED << query, cams, login_response >>

\* await send_push_notification(...)
NotifyPush ==
  /\ fan.stage = "push"
  /\ LET r == SendPushNotification
     IN fan' = [ fan EXCEPT !.attempts = fan.attempts \o r.attempts,
                            !.stage = "done" ]
  /\ UNCHANGED << now, active_alerts, alert_cooldowns, in_flight, log, ret,
                  ops, created_log, api_response, bioVars, nsettings >>
  /\ UNCHANGED << query, cams, login_response >>

\* _send_notifications is over and create_alert returns
NotifyReturn ==
  /\ fan.stage = "done"
  /\ fan' = [ fan EXCEPT !.stage = "returned", !.returned = ReturnOf(fan) ]
  /\ in_flight' = in_flight \ { fan.obj }
  /\ UNCHANGED << now, active_alerts, alert_cooldowns, log, ret, ops,
                  created_log, api_response, bioVars, nsettings >>
  /\ UNCHANGED << query, cams, login_response >>

\* create_alert calls, one at a time, with their notification fan-out
NextNotify ==
  \/ Tick
  \/ \E inp \in CreateInputs : CreateAlertNotify(inp)
  \/ \E outcomes \in [ DOMAIN EmailRecipients -> EmailOutcomes ] :
       NotifyEmail(outcomes)
  \/ \E outcomes \in [ DOMAIN SmsRecipients -> PostOutcomes ] :
       NotifySms(outcomes)
  \/ \E outcome \in PostOutcomes : NotifyWebhook(outcome)
  \/ NotifyPush
  \/ NotifyReturn

SpecNotify == InitNotify /\ [][NextNotify]_vars

\* ------------------------------------------------------------ alert queries
\* list(self.active_alerts.values()): the alerts in insertion order, which
\* is the order of their ids while nothing has been deleted
RECURSIVE Values(_)
Values(store) ==
  IF DOMAIN store = {} THEN << >>
  ELSE LET m == CHOOSE i \in DOMAIN store : \A j \in DOMAIN store : j <= i
       IN Append(Values([ i \in (DOMAIN store) \ {m} |-> store[i] ]),
                 store[m])

\* alerts.sort(key=created_at, reverse=True): a stable sort, so alerts of
\* the same second keep their insertion order
RECURSIVE SortNewestFirst(_)
SortNewestFirst(alerts) ==
  IF alerts = << >> THEN << >>
  ELSE LET h == Head(alerts)
           rest == SortNewestFirst(Tail(alerts))
           k == Cardinality({ i \in DOMAIN rest :
                                rest[i].created_at > h.created_at })
       IN SubSeq(rest, 1, k) \o << h >> \o SubSeq(rest, k + 1, Len(rest))

\* alerts[:limit]
Slice(alerts, limit) ==
  LET n == Len(alerts)
      stop == IF limit >= 0 THEN (IF limit < n THEN limit ELSE n)
              ELSE (IF n + limit > 0 THEN n + limit ELSE 0)
  IN SubSeq(alerts, 1, stop)

\* get_active_alerts: each filter is applied when its argument is truthy
GetActiveAlerts(store, severity, alert_type, camera_id, limit) ==
  LET all == Values(store)
      active == SelectSeq(all, LAMBDA a : a.status = "active")
      by_severity ==
        IF severity # None /\ severity[1] # ""
        THEN SelectSeq(active, LAMBDA a : a.severity = severity[1])
        ELSE active
      by_type ==
        IF alert_type # None /\ alert_type[1] # << >>
        THEN SelectSeq(by_severity, LAMBDA a : a.alert_type = alert_type[1])
        ELSE by_severity
      by_camera ==
        IF Truthy(camera_id)
        THEN SelectSeq(by_type, LAMBDA a : a.camera_id = camera_id)
        ELSE by_type
  IN Slice(SortNewestFirst(by_camera), limit)

Increment_Overwrite(counts, k) == DictSet(counts, k, 1)

\* stats[name][key] = stats[name].get(key, 0) + 1
Increment(counts, k) ==
  DictSet(counts, k, (IF DictHas(counts, k) THEN DictGet(counts, k) ELSE 0) + 1)

\* the counting loop over the alerts in order
RECURSIVE CountBy(_, _)
CountBy(keys, counts) ==
  IF keys = << >> THEN counts
  ELSE CountBy(Tail(keys), Increment(counts, Head(keys)))

\* sum(d.values())
RECURSIVE SumValues(_)
SumValues(counts) ==
  IF counts = << >> THEN 0 ELSE Head(counts)[2] + SumValues(Tail(counts))

\* sum(response_times)
RECURSIVE SumSeq(_)
SumSeq(xs) == IF xs = << >> THEN 0 ELSE Head(xs) + SumSeq(Tail(xs))

\* get_alert_statistics: a missing bound defaults to now - 30 days and now
GetAlertStatistics(store, start_date, end_date, t) ==
  LET start == IF start_date = None
               THEN t - DefaultRetentionDays * SecondsPerDay
               ELSE start_date[1]
      end == IF end_date = None THEN t ELSE end_date[1]
      alerts == SelectSeq(Values(store),
                          LAMBDA a : start <= a.created_at
                                     /\ a.created_at <= end)
      with_camera == SelectSeq(alerts, LAMBDA a : Truthy(a.camera_id))
      timed == SelectSeq(alerts, LAMBDA a : Truthy(a.response_time))
      response_times == [ i \in DOMAIN timed |-> timed[i].response_time[1] ]
  IN [ op |-> "statistics",
       start |-> start,
       end |-> end,
       total_alerts |-> Len(alerts),
       by_severity |->
         CountBy([ i \in DOMAIN alerts |-> alerts[i].severity ], << >>),
       by_type |->
         CountBy([ i \in DOMAIN alerts |-> alerts[i].alert_type ], << >>),
       by_status |->
         CountBy([ i \in DOMAIN alerts |-> alerts[i].status ], << >>),
       by_camera |->
         CountBy([ i \in DOMAIN with_camera |->
                     IntStr(with_camera[i].camera_id[1]) ], << >>),
       response_times |-> response_times,
       average_response_time |->
         IF response_times = << >> THEN << 0, 1 >>
         ELSE << SumSeq(response_times), Len(response_times) >>,
       unresolved_alerts |->
         Len(SelectSeq(alerts, LAMBDA a : a.status = "active")) ]

\* arguments a caller may pass to the two queries
SeverityInputs == { None, Some("low") }

TypeInputs == { None, Some(<< "motion" >>) }

CameraInputs == { None, Some(0), Some(5) }

LimitInputs == { 1, 50 }

DateInputs == { None, Some(0), Some(TickSize) }

\* the operator who acknowledged or resolved before the queries are asked
QueryUser == 7

GetActiveAlertsCall(severity, alert_type, camera_id, limit) ==
  /\ query' = [ op |-> "active", severity |-> severity,
                alert_type |-> alert_type, camera_id |-> camera_id,
                limit |-> limit,
                result |-> GetActiveAlerts(active_alerts, severity,
                                           alert_type, camera_id, limit) ]
  /\ UNCHANGED << now, active_alerts, alert_cooldowns, in_flight, log, ret,
                  ops, created_log, api_response, bioVars, notifVars,
                  cams, login_response >>

GetAlertStatisticsCall(start_date, end_date) ==
  /\ query' = GetAlertStatistics(active_alerts, start_date, end_date, now)
  /\ UNCHANGED << now, active_alerts, alert_cooldowns, in_flight, log, ret,
                  ops, created_log, api_response, bioVars, notifVars,
                  cams, login_response >>

\* instants at which the calls that built the store were made
Times == { t \in 0..MaxTime : t % TickSize = 0 }

\* the instance after one more create_alert call
Created(h, inp, t) ==
  LET r == CreateAlert(h.store, h.cooldowns, inp, NextId(h.store), t)
  IN [ store |-> r.store, cooldowns |-> r.cooldowns, at |-> t ]

\* the instance after at most n create_alert calls made at non-decreasing
\* instants
RECURSIVE Histories(_)
Histories(n) ==
  IF n = 0
  THEN { [ store |-> EmptyStore, cooldowns |-> EmptyCooldowns, at |-> 0 ] }
  ELSE LET before == Histories(n - 1)
       IN before \cup
          UNION { { Created(h, inp, t) :
                      inp \in CreateInputs, t \in { x \in Times : x >= h.at } } :
                  h \in before }

\* the same instance after at most one acknowledge_alert or resolve_alert
Settled(h) ==
  {h} \cup
  { [ h EXCEPT !.store = AcknowledgeAlertOn(h.store, id, QueryUser, t).store ] :
      id \in DOMAIN h.store, t \in { x \in Times : x >= h.at } }
  \cup
  { [ h EXCEPT !.store = ResolveAlertOn(h.store, id, QueryUser, t).store ] :
      id \in DOMAIN h.store, t \in { x \in Times : x >= h.at } }

\* the instances the queries are asked of
QueryStores ==
  UNION { Settled(h) : h \in Histories(MaxCalls) }

InitQuery ==
  /\ \E h \in QueryStores :
       /\ active_alerts = h.store
       /\ alert_cooldowns = h.cooldowns
  /\ now = MaxTime
  /\ in_flight = {}
  /\ log = << >>
  /\ ret = [ op |-> "none", alert_id |-> 0, user |-> 0, result |-> FALSE ]
  /\ ops = 0
  /\ created_log = << >>
  /\ api_response = [ op |-> "none", alert_id |-> None, status_code |-> 0 ]
  /\ face_encodings_cache = << >>
  /\ fingerprint_templates_cache = << >>
  /\ iris_templates_cache = << >>
  /\ auth = [ op |-> "none" ]
  /\ bio_response = [ endpoint |-> "none" ]
  /\ nsettings = DefaultSettings
  /\ fan = FanIdle
  /\ query = [ op |-> "none" ]
  /\ cams = [ c \in CameraIds |-> NoCamera ]
  /\ login_response = NoLogin

NextQuery ==
  \/ \E s \in SeverityInputs, ty \in TypeInputs, c \in CameraInputs,
        l \in LimitInputs :
       GetActiveAlertsCall(s, ty, c, l)
  \/ \E s \in DateInputs, e \in DateInputs : GetAlertStatisticsCall(s, e)

SpecQuery == InitQuery /\ [][NextQuery]_vars

\* ---------------------------------------------------------- camera monitoring
\* positions of a monitoring task: "pending" (created, not yet run),
\* "sleep_retry" (asyncio.sleep(1) after a failed read), "motion" (frame
\* read, motion handling next), "analysis" (detection-engine analysis next),
\* "sleep_frame" (asyncio.sleep(1 / CAMERA_FPS)), "stopped"

Suspends_AtHandlers(position) ==
  position \in { "pending", "sleep_retry", "sleep_frame", "motion" }

\* the awaits at which the task really yields to the event loop: the two
\* sleeps, and the start of a task that has not run yet. The handlers build
\* a fresh AlertService whose notification client is None, and the detection
\* engine awaits only its own coroutines, so neither yields
Suspends(position) == position \in { "pending", "sleep_retry", "sleep_frame" }

\* no monitoring task and no recording loop is between a suspension point
\* and the next one, so another coroutine may run
Quiescent ==
  \A c \in CameraIds :
    /\ cams[c].task \in { "none", "stopped" } \/ Suspends(cams[c].task)
    /\ cams[c].recording # "reading"

\* add_camera on an instance: capture opened and stored, motion model
\* created, monitoring task created
Added(via) ==
  [ NoCamera EXCEPT !.capture = "open", !.detector = TRUE, !.listed = TRUE,
                    !.task = "pending", !.via = via ]

\* remove_camera / cleanup on the instance that holds the camera: cancel the
\* task if it is not done, release the capture, drop the three entries
Removed(cam) ==
  [ cam EXCEPT !.cancelled = (cam.task # "stopped"),
               !.listed = FALSE,
               !.capture = "released",
               !.detector = FALSE ]

AfterRead_StopOnFailure(cam, outcome) ==
  CASE outcome = "frame" ->
         [ cam EXCEPT !.task = "motion", !.frames = cam.frames + 1 ]
    [] outcome = "no_frame" ->
         [ cam EXCEPT !.task = "stopped", !.failed = cam.failed + 1 ]
    [] outcome = "error" -> [ cam EXCEPT !.task = "stopped" ]

\* cap.read(): a frame goes on to processing, a failed read goes to the
\* one-second sleep and back to the top of the loop, an exception leaves the
\* loop through except Exception, which only logs
AfterRead(cam, outcome) ==
  CASE outcome = "frame" ->
         [ cam EXCEPT !.task = "motion", !.frames = cam.frames + 1 ]
    [] outcome = "no_frame" ->
         [ cam EXCEPT !.task = "sleep_retry", !.failed = cam.failed + 1 ]
    [] outcome = "error" -> [ cam EXCEPT !.task = "stopped" ]

ReadOutcomes == { "frame", "no_frame", "error" }

\* CameraService.add_camera on the long-lived, initialised instance
AddCamera(c) ==
  /\ Quiescent
  /\ cams[c].capture = "none"
  /\ ~cams[c].shutdown
  /\ cams' = [ cams EXCEPT ![c] = Added("service") ]
  /\ UNCHANGED << now, active_alerts, alert_cooldowns, in_flight, log, ret,
                  ops, created_log, api_response, bioVars, notifVars,
                  query, login_response >>

\* CameraService.remove_camera on the long-lived instance
RemoveCamera(c) ==
  /\ Quiescent
  /\ ~cams[c].removed
  /\ cams' = [ cams EXCEPT ![c] =
                 IF cams[c].via = "service" /\ cams[c].listed
                 THEN [ Removed(cams[c]) EXCEPT !.removed = TRUE ]
                 ELSE [ cams[c] EXCEPT !.removed = TRUE ] ]
  /\ UNCHANGED << now, active_alerts, alert_cooldowns, in_flight, log, ret,
                  ops, created_log, api_response, bioVars, notifVars,
                  query, login_response >>

\* lifespan shutdown: cleanup() of the global instance
CameraCleanup ==
  /\ Quiescent
  /\ \E c \in CameraIds : ~cams[c].shutdown
  /\ cams' = [ c \in CameraIds |->
                 IF cams[c].via = "service" /\ cams[c].listed
                 THEN [ Removed(cams[c]) EXCEPT !.shutdown = TRUE ]
                 ELSE [ cams[c] EXCEPT !.shutdown = TRUE ] ]
  /\ UNCHANGED << now, active_alerts, alert_cooldowns, in_flight, log, ret,
                  ops, created_log, api_response, bioVars, notifVars,
                  query, login_response >>

\* POST /cameras/: add_camera on a CameraService() built for the request
ApiCreateCamera(c) ==
  /\ Quiescent
  /\ cams[c].capture = "none"
  /\ ~cams[c].shutdown
  /\ cams' = [ cams EXCEPT ![c] = Added("api") ]
  /\ UNCHANGED << now, active_alerts, alert_cooldowns, in_flight, log, ret,
                  ops, created_log, api_response, bioVars, notifVars,
                  query, login_response >>

\* DELETE /cameras/{id}: remove_camera on a CameraService() built for the
\* request, whose maps are empty
ApiDeleteCamera(c) ==
  /\ Quiescent
  /\ ~cams[c].removed
  /\ cams' = [ cams EXCEPT ![c].removed = TRUE ]
  /\ UNCHANGED << now, active_alerts, alert_cooldowns, in_flight, log, ret,
                  ops, created_log, api_response, bioVars, notifVars,
                  query, login_response >>

\* the task resumes at the top of the loop and reads
MonitorRead(c, outcome) ==
  /\ Quiescent
  /\ cams[c].task \in { "pending", "sleep_retry", "sleep_frame" }
  /\ ~cams[c].cancelled
  /\ cams[c].frames + cams[c].failed < MaxFrames
  /\ cams' = [ cams EXCEPT ![c] = AfterRead(cams[c], outcome) ]
  /\ UNCHANGED << now, active_alerts, alert_cooldowns, in_flight, log, ret,
                  ops, created_log, api_response, bioVars, notifVars,
                  query, login_response >>

\* what happens inside the processing of one frame: nothing fails, the
\* detection raises, the frame file cannot be written, create_alert raises
Outcomes == { "ok", "detection_failed", "persist_failed", "create_raised" }

\* the detection reported an event and its handler ran to the end
Raised(detected, outcome) == detected /\ outcome = "ok"

\* a detection that raises reports nothing, and a handler runs only for a
\* reported event
Consistent(detected, outcome) ==
  /\ outcome = "detection_failed" => ~detected
  /\ outcome \in { "persist_failed", "create_raised" } => detected

AfterEvent_Unwinds(cam, outcome, next) ==
  [ cam EXCEPT !.task = IF outcome = "ok" THEN next ELSE "stopped",
               !.faulted = cam.faulted \/ outcome # "ok" ]

\* _detect_motion, analyze_frame and the two handlers each catch Exception
\* in their own body, so the loop goes on to its next await whatever the
\* outcome
AfterEvent(cam, outcome, next) ==
  [ cam EXCEPT !.task = next,
               !.faulted = cam.faulted \/ outcome # "ok" ]

\* _detect_motion and, on motion, _handle_motion_event
MonitorMotion(c, motion, outcome) ==
  /\ cams[c].task = "motion"
  /\ ~cams[c].cancelled
  /\ Consistent(motion, outcome)
  /\ Raised(motion, outcome) => Len(created_log) < MaxEvents
  /\ LET inp == [ alert_type |-> <<"motion">>, severity |-> "medium",
                  camera_id |-> Some(c), location |-> None ]
     IN created_log' = IF Raised(motion, outcome)
                       THEN Recorded("motion", inp, FreshCreate(inp))
                       ELSE created_log
  /\ cams' = [ cams EXCEPT ![c] = AfterEvent(cams[c], outcome, "analysis") ]
  /\ UNCHANGED << now, active_alerts, alert_cooldowns, in_flight, log, ret,
                  ops, api_response, bioVars, notifVars,
                  query, login_response >>

\* analyze_frame when the instance has a detection engine and, on an
\* emergency, _handle_emergency_event; then the inter-frame sleep
MonitorAnalysis(c, emergency, outcome) ==
  /\ cams[c].task = "analysis"
  /\ ~cams[c].cancelled
  /\ Consistent(emergency, outcome)
  /\ (emergency \/ outcome # "ok") => cams[c].via = "service"
  /\ Raised(emergency, outcome) => Len(created_log) < MaxEvents
  /\ LET inp == [ alert_type |-> <<"emergency">>, severity |-> "critical",
                  camera_id |-> Some(c), location |-> None ]
     IN created_log' = IF Raised(emergency, outcome)
                       THEN Recorded("emergency", inp, FreshCreate(inp))
                       ELSE created_log
  /\ cams' = [ cams EXCEPT ![c] = AfterEvent(cams[c], outcome, "sleep_frame") ]
  /\ UNCHANGED << now, active_alerts, alert_cooldowns, in_flight, log, ret,
                  ops, api_response, bioVars, notifVars,
                  query, login_response >>

\* CancelledError is raised in the task at the await where it is suspended
MonitorCancelled(c) ==
  /\ cams[c].cancelled
  /\ cams[c].task # "stopped"
  /\ Suspends(cams[c].task)
  /\ cams' = [ cams EXCEPT ![c].task = "stopped" ]
  /\ UNCHANGED << now, active_alerts, alert_cooldowns, in_flight, log, ret,
                  ops, created_log, api_response, bioVars, notifVars,
                  query, login_response >>

NextCamera ==
  \/ \E c \in CameraIds : AddCamera(c)
  \/ \E c \in CameraIds : RemoveCamera(c)
  \/ CameraCleanup
  \/ \E c \in CameraIds : ApiCreateCamera(c)
  \/ \E c \in CameraIds : ApiDeleteCamera(c)
  \/ \E c \in CameraIds, o \in ReadOutcomes : MonitorRead(c, o)
  \/ \E c \in CameraIds, m \in BOOLEAN : MonitorMotion(c, m, "ok")
  \/ \E c \in CameraIds, e \in BOOLEAN : MonitorAnalysis(c, e, "ok")
  \/ \E c \in CameraIds : MonitorCancelled(c)

SpecCamera == Init /\ [][NextCamera]_vars

\* one instance whose frame processing may fail at every stage
NextFaults ==
  \/ \E c \in CameraIds : AddCamera(c)
  \/ \E c \in CameraIds : RemoveCamera(c)
  \/ \E c \in CameraIds, o \in ReadOutcomes : MonitorRead(c, o)
  \/ \E c \in CameraIds, m \in BOOLEAN, o \in Outcomes :
       MonitorMotion(c, m, o)
  \/ \E c \in CameraIds, e \in BOOLEAN, o \in Outcomes :
       MonitorAnalysis(c, e, o)
  \/ \E c \in CameraIds : MonitorCancelled(c)

SpecFaults == Init /\ [][NextFaults]_vars

\* -------------------------------------------------------- confidence score
\* an Alert object before create_alert looks at the analysis: the
\* confidence_score attribute has not been assigned
Unscored(alert) ==
  [ f \in (DOMAIN alert) \cup { "confidence_score" } |->
      IF f = "confidence_score" THEN None ELSE alert[f] ]

\* max(scores.values())
MaxScore(scores) ==
  LET vs == { scores[i][2] : i \in DOMAIN scores }
  IN CHOOSE v \in vs : \A w \in vs : w <= v

\* if ai_analysis and "confidence_scores" in ai_analysis:
\*     scores = ai_analysis["confidence_scores"]
\*     alert.confidence_score = max(scores.values()) if scores else 0.0
\* scores are hundredths
SetConfidence(alert, ai_analysis) ==
  IF /\ ai_analysis # None
     /\ ai_analysis[1] # << >>
     /\ DictHas(ai_analysis[1], "confidence_scores")
    THEN LET scores == DictGet(ai_analysis[1], "confidence_scores")
         IN [ alert EXCEPT !.confidence_score =
                Some(IF scores # << >> THEN MaxScore(scores) ELSE 0) ]
    ELSE alert

\* the ai_analysis argument of create_alert: absent, an empty payload, a
\* payload without a confidence map, an empty map, and maps whose largest
\* value is first or last
AnalysisInputs ==
  { None,
    Some(<< >>),
    Some(<< <<"description", << >> >> >>),
    Some(<< <<"confidence_scores", << >> >> >>),
    Some(<< <<"confidence_scores", << <<"violence", 40>>, <<"anomaly", 90>> >> >> >>),
    Some(<< <<"description", << >> >>,
            <<"confidence_scores", << <<"violence", 80>>, <<"anomaly", 30>> >> >> >>) }

\* create_alert called with an analysis payload, up to the return None of a
\* suppressed call or to the first await of _send_notifications
CreateAlertAnalysed(inp, ai_analysis) ==
  /\ Cardinality(in_flight) < NumTasks
  /\ Len(log) < MaxCalls
  /\ LET obj == Len(log) + 1
         r == CreateAlert(active_alerts, alert_cooldowns, inp, obj, now)
         alert == IF r.alert = None
                    THEN None
                    ELSE Some(SetConfidence(Unscored(r.alert[1]), ai_analysis))
     IN /\ active_alerts' = IF alert = None THEN r.store
                                            ELSE StoreAlert(r.store, alert[1])
        /\ alert_cooldowns' = r.cooldowns
        /\ log' = Append(log, [ inp |-> inp, at |-> now, alert |-> alert,
                                ai_analysis |-> ai_analysis ])
        /\ in_flight' = IF alert = None THEN in_flight
                                       ELSE in_flight \cup {obj}
  /\ UNCHANGED << now, ret, ops, created_log, api_response >>
  /\ UNCHANGED << bioVars, notifVars >>
  /\ UNCHANGED << query, cams, login_response >>

NextConfidence ==
  \/ Tick
  \/ \E inp \in CreateInputs, ai \in AnalysisInputs :
       CreateAlertAnalysed(inp, ai)
  \/ \E obj \in 1..MaxCalls : SendNotifications(obj)

SpecConfidence == Init /\ [][NextConfidence]_vars

\* ------------------------------------------------------- suppression keys
\* create_alert arguments whose triples differ while an argument is absent,
\* is the text "None", or contains the separator
KeyInputs ==
  { [alert_type |-> <<"motion">>, severity |-> "medium",
     camera_id |-> Some(5), location |-> None],
    [alert_type |-> <<"motion">>, severity |-> "medium",
     camera_id |-> Some(5), location |-> Some(<<"None">>)],
    [alert_type |-> <<"door">>, severity |-> "medium",
     camera_id |-> Some(5), location |-> Some(<<"1", "_", "x">>)],
    [alert_type |-> <<"door", "_", "5">>, severity |-> "medium",
     camera_id |-> Some(1), location |-> Some(<<"x">>)] }

NextKeys ==
  \/ Tick
  \/ \E inp \in KeyInputs : CreateAlertCall(inp)
  \/ \E obj \in 1..MaxCalls : SendNotifications(obj)

SpecKeys == Init /\ [][NextKeys]_vars

\* ------------------------------------------------------------ input checking
\* keyword arguments of update_alert that name no value of the data model
MalformedUpdates == { [severity |-> "urgent"], [status |-> "closed"] }

NextValidation ==
  \/ Tick
  \/ \E inp \in CreateInputs : CreateAlertCall(inp)
  \/ \E obj \in 1..MaxCalls : SendNotifications(obj)
  \/ \E id \in AlertIds, kw \in UpdateInputs \cup MalformedUpdates :
       UpdateAlert(id, kw)

SpecValidation == Init /\ [][NextValidation]_vars

\* ------------------------------------------------------------------ recording
\* start_recording on the long-lived instance, up to its first read: an
\* unknown camera raises; otherwise the video writer is opened.
\* RecordingFrames stands for duration * CAMERA_FPS
StartRecording(c) ==
  /\ Quiescent
  /\ cams[c].recording = "none"
  /\ cams' = [ cams EXCEPT ![c] =
                 IF cams[c].via = "service" /\ cams[c].listed
                 THEN [ cams[c] EXCEPT !.recording = "reading",
                                       !.writer = "open" ]
                 ELSE [ cams[c] EXCEPT !.recording = "raised" ] ]
  /\ UNCHANGED << now, active_alerts, alert_cooldowns, in_flight, log, ret,
                  ops, created_log, api_response, bioVars, notifVars,
                  query, login_response >>

\* one pass of the recording loop up to its sleep: cap.read(), and
\* out.write(frame) when a frame came; a released capture delivers none
RecordRead(c, delivered) ==
  /\ cams[c].recording = "reading"
  /\ delivered => cams[c].capture = "open"
  /\ cams' = [ cams EXCEPT ![c].recording = "sleeping",
                           ![c].written = IF delivered THEN @ + 1 ELSE @ ]
  /\ UNCHANGED << now, active_alerts, alert_cooldowns, in_flight, log, ret,
                  ops, created_log, api_response, bioVars, notifVars,
                  query, login_response >>

\* the sleep is over and the loop condition is tested: another pass, or
\* out.release() and the Recording is returned
RecordWake(c) ==
  /\ cams[c].recording = "sleeping"
  /\ cams' = [ cams EXCEPT ![c] =
                 IF cams[c].written < RecordingFrames
                 THEN [ cams[c] EXCEPT !.recording = "reading" ]
                 ELSE [ cams[c] EXCEPT !.recording = "returned",
                                       !.writer = "released" ] ]
  /\ UNCHANGED << now, active_alerts, alert_cooldowns, in_flight, log, ret,
                  ops, created_log, api_response, bioVars, notifVars,
                  query, login_response >>

NextRecording ==
  \/ \E c \in CameraIds : AddCamera(c)
  \/ \E c \in CameraIds : RemoveCamera(c)
  \/ \E c \in CameraIds : StartRecording(c)
  \/ \E c \in CameraIds, delivered \in BOOLEAN : RecordRead(c, delivered)
  \/ \E c \in CameraIds : RecordWake(c)

\* every recording loop that can take a step eventually takes it, and a
\* capture that stays open eventually delivers a frame
RecordingFairness ==
  \A c \in CameraIds :
    /\ WF_vars(\E delivered \in BOOLEAN : RecordRead(c, delivered))
    /\ WF_vars(RecordWake(c))
    /\ SF_vars(RecordRead(c, TRUE))

SpecRecording == Init /\ [][NextRecording]_vars /\ RecordingFairness

\* ----------------------------------------------------------------- claims
IsCreated(e) == e.alert # None

SameTriple(a, b) ==
  /\ a.alert_type = b.alert_type
  /\ a.camera_id = b.camera_id
  /\ a.location = b.location

\* C1: no two alerts created through the camera handlers and the alert API
\* for the same (alert_type, camera_id, location) are less than the cooldown
\* duration apart.
C1_PipelineCooldown ==
  \A i, j \in DOMAIN created_log :
    (i < j /\ SameTriple(created_log[i].inp, created_log[j].inp))
      => created_log[j].created_at - created_log[i].created_at
           >= ALERT_COOLDOWN

\* C2: in the cooldown window that a created alert opens, every other
\* create_alert call with the same triple is suppressed, also the calls made
\* while the creating call is still suspended: one created, the rest
\* suppressed.
C2_ConcurrentSuppression ==
  \A i \in DOMAIN log :
    IsCreated(log[i]) =>
      LET window == { j \in DOMAIN log :
                        /\ SameTriple(log[i].inp, log[j].inp)
                        /\ j >= i
                        /\ log[j].at - log[i].at < ALERT_COOLDOWN }
      IN /\ Cardinality({ j \in window : IsCreated(log[j]) }) = 1
         /\ Cardinality({ j \in window : ~IsCreated(log[j]) })
              = Cardinality(window) - 1

C2_Witness ==
  \E i, j \in DOMAIN log :
    /\ i < j
    /\ SameTriple(log[i].inp, log[j].inp)
    /\ IsCreated(log[i])
    /\ i \in in_flight
    /\ ~IsCreated(log[j])

\* the last created alert of the same triple before call j, if any
LastCreatedBefore(j) ==
  { i \in DOMAIN log :
      /\ i < j
      /\ SameTriple(log[i].inp, log[j].inp)
      /\ IsCreated(log[i])
      /\ \A k \in DOMAIN log :
           (i < k /\ k < j /\ SameTriple(log[k].inp, log[j].inp))
             => ~IsCreated(log[k]) }

\* C3: a create_alert call returns Suppressed when the last alert created
\* for its triple is less than the cooldown duration old, and returns a new
\* alert when there is none or the window has elapsed.
C3_CooldownSuppression ==
  \A j \in DOMAIN log :
    IsCreated(log[j]) <=>
      \A i \in LastCreatedBefore(j) :
        log[j].at - log[i].at >= ALERT_COOLDOWN

C3_Witness ==
  /\ Len(log) = 3
  /\ SameTriple(log[1].inp, log[2].inp)
  /\ SameTriple(log[2].inp, log[3].inp)
  /\ IsCreated(log[1])
  /\ ~IsCreated(log[2])
  /\ log[2].at - log[1].at < ALERT_COOLDOWN
  /\ IsCreated(log[3])
  /\ log[3].at - log[1].at >= ALERT_COOLDOWN

Rank(status) ==
  CASE status = "active" -> 0
    [] status = "acknowledged" -> 1
    [] status = "resolved" -> 2
    [] OTHER -> 3

\* C4: the status of an alert object never moves backward: not from
\* resolved to anything else, not from acknowledged to active.
C4_StatusMovesForward ==
  [][ \A i \in (DOMAIN active_alerts) \cap (DOMAIN active_alerts') :
        active_alerts'[i].obj = active_alerts[i].obj
          => Rank(active_alerts'[i].status) >= Rank(active_alerts[i].status)
    ]_vars

\* C5: acknowledge of a resolved alert returns true and changes nothing.
C5_AcknowledgeResolvedNoOp ==
  [][ \A id \in AlertIds, user \in Users :
        ( /\ id \in DOMAIN active_alerts
          /\ active_alerts[id].status = "resolved"
          /\ AcknowledgeAlert(id, user) )
        => (ret'.result = TRUE /\ active_alerts' = active_alerts)
    ]_vars

\* C6: acknowledge of an acknowledged alert and resolve of a resolved alert
\* return true and leave the store as it was, whoever the caller is.
C6_Idempotent ==
  [][ \A id \in AlertIds, user \in Users :
        /\ ( /\ id \in DOMAIN active_alerts
             /\ active_alerts[id].status = "acknowledged"
             /\ AcknowledgeAlert(id, user) )
           => (ret'.result = TRUE /\ active_alerts' = active_alerts)
        /\ ( /\ id \in DOMAIN active_alerts
             /\ active_alerts[id].status = "resolved"
             /\ ResolveAlert(id, user) )
           => (ret'.result = TRUE /\ active_alerts' = active_alerts)
    ]_vars

C6_Witness ==
  /\ ops = 2
  /\ ret.op = "acknowledge"
  /\ ret.result = TRUE
  /\ ret.alert_id \in DOMAIN active_alerts
  /\ active_alerts[ret.alert_id].status = "acknowledged"
  /\ active_alerts[ret.alert_id].user_id # Some(ret.user)
  /\ active_alerts[ret.alert_id].acknowledged_at # Some(now)

\* C7: a resolved alert has response_time = resolved_at - acknowledged_at
\* when it was acknowledged, and resolved_at - created_at when it was not.
C7_ResponseTimeLaw ==
  \A i \in DOMAIN active_alerts :
    LET a == active_alerts[i] IN
    a.status = "resolved" =>
      /\ a.resolved_at # None
      /\ a.response_time =
           IF a.acknowledged_at # None
             THEN Some(a.resolved_at[1] - a.acknowledged_at[1])
             ELSE Some(a.resolved_at[1] - a.created_at)

C7_Witness ==
  \E i \in DOMAIN active_alerts :
    LET a == active_alerts[i] IN
    /\ a.status = "resolved"
    /\ a.acknowledged_at # None
    /\ a.created_at < a.acknowledged_at[1]
    /\ a.acknowledged_at[1] < a.resolved_at[1]

\* C8: the ids that create_alert assigns are strictly increasing, so a new
\* alert never takes the id of an alert that is still stored.
C8_IdsStrictlyIncrease ==
  \A i, j \in DOMAIN log :
    (i < j /\ IsCreated(log[i]) /\ IsCreated(log[j]))
      => log[j].alert[1].id[1] > log[i].alert[1].id[1]

\* C9: an alert that a camera handler or the alert API created can be
\* retrieved, acknowledged and resolved by id in a later request.
C9_AlertStaysOwned ==
  [][ \A id \in AlertIds, user \in Users :
        ( /\ \E k \in DOMAIN created_log : created_log[k].id = id
          /\ (ApiGetAlert(id) \/ ApiAcknowledgeAlert(id, user)
                \/ ApiResolveAlert(id, user)) )
        => api_response'.status_code = 200
    ]_vars

\* C10: acknowledge and resolve of an id that is not in the store return
\* false and change neither the store nor the cooldown map.
C10_UnknownId ==
  [][ \A id \in AlertIds, user \in Users :
        ( /\ id \notin DOMAIN active_alerts
          /\ (AcknowledgeAlert(id, user) \/ ResolveAlert(id, user)) )
        => /\ ret'.result = FALSE
           /\ active_alerts' = active_alerts
           /\ alert_cooldowns' = alert_cooldowns
    ]_vars

C10_Witness ==
  /\ ret.op \in {"acknowledge", "resolve"}
  /\ ret.result = FALSE
  /\ ret.alert_id \notin DOMAIN active_alerts
  /\ active_alerts # EmptyStore
  /\ alert_cooldowns # EmptyCooldowns

\* C11: a suppressed create_alert leaves the store, the cooldown map and the
\* set of notifications in flight as they were; a created alert sets the
\* last-fired time of its own key to the current time and of no other key;
\* no other call changes the cooldown map.
C11_CreateFrame ==
  [][ LET n == Len(log') IN
      /\ (n = Len(log) + 1 /\ ~IsCreated(log'[n]))
           => /\ active_alerts' = active_alerts
              /\ alert_cooldowns' = alert_cooldowns
              /\ in_flight' = in_flight
      /\ (n = Len(log) + 1 /\ IsCreated(log'[n]))
           => LET key == CooldownKey(log'[n].inp) IN
              /\ in_flight' # in_flight
              /\ alert_cooldowns' =
                   [ k \in (DOMAIN alert_cooldowns) \cup {key} |->
                       IF k = key THEN now ELSE alert_cooldowns[k] ]
      /\ (n = Len(log)) => alert_cooldowns' = alert_cooldowns
    ]_vars

C11_Witness ==
  \E i, j \in DOMAIN log :
    /\ i < j
    /\ SameTriple(log[i].inp, log[j].inp)
    /\ IsCreated(log[i])
    /\ ~IsCreated(log[j])
    /\ log[j].at > log[i].at
    /\ alert_cooldowns[CooldownKey(log[i].inp)] = log[i].at
    /\ Cardinality(DOMAIN alert_cooldowns) = 2

\* sum of the confidences of the successful results
RECURSIVE SuccessfulConfidence(_, _)
SuccessfulConfidence(results, i) ==
  IF i > Len(results) THEN 0
  ELSE (IF results[i].success THEN results[i].confidence ELSE 0)
         + SuccessfulConfidence(results, i + 1)

\* C12: when no identity mismatch occurs, fusion succeeds exactly when at
\* least one modality succeeded, an identity was resolved and the mean
\* confidence over the successful modalities only is at least 0.7.
C12_FusionMeanOverSuccessful ==
  (auth.op = "multi_modal" /\ ErrorOf(auth.result) # MismatchError)
    => LET rs == auth.result.detailed_results
           n == Successes(rs)
       IN auth.result.success
            <=> /\ n > 0
                /\ auth.result.user_id # None
                /\ SuccessfulConfidence(rs, 1) >= FusionThreshold * n

\* the results of the modalities supplied to the last fusion call
SuppliedResults ==
  (IF auth.face_image # None
     THEN << AuthenticateFace(face_encodings_cache, auth.face_image[1],
                              auth.user_id) >>
     ELSE << >>)
  \o (IF auth.fingerprint_data # None
        THEN << AuthenticateFingerprint(fingerprint_templates_cache,
                                        auth.fingerprint_data[1],
                                        auth.user_id) >>
        ELSE << >>)
  \o (IF auth.iris_image # None /\ IRIS_RECOGNITION_ENABLED
        THEN << AuthenticateIris(iris_templates_cache, auth.iris_image[1],
                                 auth.user_id) >>
        ELSE << >>)

\* C13: if two successful results supplied to fusion carry different
\* user_ids, fusion fails with the identity-mismatch error.
C13_IdentityMismatch ==
  auth.op = "multi_modal"
    => LET rs == SuppliedResults IN
       (\E i, j \in DOMAIN rs :
           /\ rs[i].success
           /\ rs[j].success
           /\ rs[i].user_id # rs[j].user_id)
         => /\ auth.result.success = FALSE
            /\ ErrorOf(auth.result) = MismatchError

\* face and iris succeed as different users with a failed fingerprint
\* between them
C13_Witness ==
  /\ auth.op = "multi_modal"
  /\ Len(SuppliedResults) = 3
  /\ SuppliedResults[1].success
  /\ ~SuppliedResults[2].success
  /\ SuppliedResults[3].success
  /\ SuppliedResults[1].user_id # SuppliedResults[3].user_id
  /\ ErrorOf(auth.result) = MismatchError

\* C14: an authenticate call given a user_id succeeds only as that user.
C14_TargetedAuthentication ==
  ( /\ auth.op \in { "authenticate_face", "authenticate_fingerprint",
                     "authenticate_iris" }
    /\ auth.user_id # None
    /\ auth.result.success )
    => auth.result.user_id = auth.user_id

\* positions of the face templates whose distance to the encoding clears the
\* tolerance
Clearing(cache, unknown) ==
  { i \in DOMAIN cache :
      FaceDistance(cache[i][2], unknown) <= FACE_RECOGNITION_TOLERANCE }

\* C16: a face search over all templates succeeds exactly when some enrolled
\* template clears the tolerance, and then as an enrolled user whose
\* distance is the lowest, whatever the storage order and the user id.
C16_BestMatch ==
  ( /\ auth.op = "authenticate_face"
    /\ auth.user_id = None
    /\ auth.sample # << >> )
    => LET cache == face_encodings_cache
           unknown == auth.sample[1]
           ok == Clearing(cache, unknown)
       IN IF ok = {}
            THEN ~auth.result.success
            ELSE /\ auth.result.success
                 /\ \E i \in ok :
                      /\ auth.result.user_id = Some(cache[i][1])
                      /\ \A j \in ok :
                           FaceDistance(cache[i][2], unknown)
                             <= FaceDistance(cache[j][2], unknown)

\* the service methods that register or compare a sample
MatchingCalls ==
  { "register_face", "register_iris", "authenticate_face",
    "authenticate_iris", "multi_modal_authentication" }

\* an upload that is present and fails detect_liveness
NotLive(upload) == upload # None /\ ~DetectLiveness(upload[1])

\* C15: a request carrying a face or iris image that fails the liveness
\* check is answered with a liveness failure, and no method that registers
\* or compares the sample has been called.
C15_LivenessGate ==
  ( /\ bio_response.endpoint # "none"
    /\ \/ NotLive(bio_response.face_image)
       \/ NotLive(bio_response.iris_image) )
    => /\ bio_response.error = "Liveness check failed"
       /\ \A i \in DOMAIN bio_response.calls :
            bio_response.calls[i] \notin MatchingCalls

\* the traced create_alert call created an alert
FanCreated == fan.obj # 0

\* the fan-out of the traced call is over
FanOutDone == FanCreated /\ fan.stage \in { "done", "returned" }

\* the sends made on a channel by the traced call
AttemptsOn(f, channel) ==
  { i \in DOMAIN f.attempts : f.attempts[i].channel = channel }

\* the transport outcomes that are not a delivery
Undelivered == { "raised", "rejected", "unconfigured" }

\* C17: whatever the channels did, a create_alert call that was not
\* suppressed returns the alert, and the alert is stored and its cooldown
\* key stamped with the creation time.
C17_CreationSurvivesNotification ==
  (FanCreated /\ fan.stage = "returned")
    => /\ fan.returned = Some(fan.obj)
       /\ \E id \in DOMAIN active_alerts : active_alerts[id].obj = fan.obj
       /\ LET e == log[fan.obj] IN
          /\ e.alert # None
          /\ CooldownKey(e.inp) \in DOMAIN alert_cooldowns
          /\ alert_cooldowns[CooldownKey(e.inp)] = e.at

\* every channel is enabled and none of the five sends delivered
C17_Witness ==
  /\ FanCreated
  /\ fan.stage = "returned"
  /\ fan.returned = Some(fan.obj)
  /\ Cardinality(AttemptsOn(fan, "email")) = 2
  /\ Cardinality(AttemptsOn(fan, "sms")) = 2
  /\ Cardinality(AttemptsOn(fan, "webhook")) = 1
  /\ \A i \in DOMAIN fan.attempts :
       fan.attempts[i].channel # "push"
         => fan.attempts[i].outcome \in Undelivered

\* the delivery flag of a channel
Flag(f, channel) ==
  CASE channel = "email" -> f.email_sent
    [] channel = "sms" -> f.sms_sent
    [] channel = "webhook" -> f.webhook_sent

\* C18: once the fan-out is over, push was attempted, and email, SMS and
\* webhook were attempted exactly when enabled (with a recipient to send
\* to), whatever the other channels did; a step that makes no send on a
\* channel leaves that channel's delivery flag as it was.
C18_EveryEnabledChannelAttempted ==
  /\ [](FanOutDone =>
          /\ AttemptsOn(fan, "push") # {}
          /\ AttemptsOn(fan, "webhook") # {} <=> nsettings.WEBHOOK_URL # None
          /\ AttemptsOn(fan, "email") # {}
               <=> (nsettings.EMAIL_ENABLED
                      /\ nsettings.email_recipients # << >>)
          /\ AttemptsOn(fan, "sms") # {}
               <=> (nsettings.SMS_ENABLED /\ nsettings.sms_recipients # << >>))
  /\ [][ \A channel \in { "email", "sms", "webhook" } :
           ( /\ fan'.obj = fan.obj
             /\ AttemptsOn(fan', channel) = AttemptsOn(fan, channel) )
             => Flag(fan', channel) = Flag(fan, channel) ]_vars

\* email and webhook raised, SMS is disabled, and push was still attempted
C18_Witness ==
  /\ FanOutDone
  /\ ~nsettings.SMS_ENABLED
  /\ AttemptsOn(fan, "sms") = {}
  /\ AttemptsOn(fan, "email") # {}
  /\ \A i \in AttemptsOn(fan, "email") \cup AttemptsOn(fan, "webhook") :
       fan.attempts[i].outcome = "raised"
  /\ AttemptsOn(fan, "webhook") # {}
  /\ AttemptsOn(fan, "push") # {}
  /\ ~fan.webhook_sent

\* the traced call is past the email block, past the SMS block
PastEmail == FanCreated /\ fan.stage \notin { "idle", "email" }

PastSms == FanCreated /\ fan.stage \notin { "idle", "email", "sms" }

\* a send was made to every one of the recipients
AllAttempted(channel, recipients) ==
  \A k \in DOMAIN recipients :
    \E i \in AttemptsOn(fan, channel) :
      fan.attempts[i].recipient = recipients[k]

\* C19: an enabled email channel sends to every email recipient and an
\* enabled SMS channel to every SMS recipient, whatever happened to the
\* sends before.
C19_EveryRecipientAttempted ==
  /\ (PastEmail /\ nsettings.EMAIL_ENABLED)
       => AllAttempted("email", nsettings.email_recipients)
  /\ (PastSms /\ nsettings.SMS_ENABLED)
       => AllAttempted("sms", nsettings.sms_recipients)

\* the send to the first recipient raised on both channels and the second
\* recipient was still sent to
C19_Witness ==
  /\ PastSms
  /\ \E i, j \in AttemptsOn(fan, "email") :
       /\ i < j
       /\ fan.attempts[i].outcome = "raised"
       /\ fan.attempts[j].recipient = EmailRecipients[2]
  /\ \E i, j \in AttemptsOn(fan, "sms") :
       /\ i < j
       /\ fan.attempts[i].outcome = "raised"
       /\ fan.attempts[j].recipient = SmsRecipients[2]

\* some send on the channel was delivered
Delivered(channel) ==
  \E i \in AttemptsOn(fan, channel) : fan.attempts[i].outcome = "sent"

\* C20: after the fan-out each delivery flag is true exactly when the
\* transport of its channel delivered to at least one recipient.
C20_FlagsReflectDelivery ==
  FanOutDone
    => \A channel \in { "email", "sms", "webhook" } :
         Flag(fan, channel) <=> Delivered(channel)

\* the retention horizon of a pruning call made now
Horizon(retention_days) == now - retention_days * SecondsPerDay

\* the stored alert is resolved and was resolved before the horizon
Expired(a, retention_days) ==
  /\ a.status = "resolved"
  /\ a.resolved_at # None
  /\ a.resolved_at[1] < Horizon(retention_days)

\* C23: cleanup_old_alerts(retention_days) removes exactly the resolved
\* alerts whose resolved_at is older than the horizon; every other alert is
\* kept as it is and the cooldown map is unchanged.
C23_PruneFrame ==
  [][ \A d \in RetentionInputs :
        CleanupOldAlerts(d)
          => /\ DOMAIN active_alerts' =
                  { i \in DOMAIN active_alerts :
                      ~Expired(active_alerts[i], d) }
             /\ \A i \in DOMAIN active_alerts' :
                  active_alerts'[i] = active_alerts[i]
             /\ alert_cooldowns' = alert_cooldowns
    ]_vars

\* a pruning has removed the one alert resolved before the horizon and kept
\* the active alert created in the same call sequence and both cooldown stamps
C23_Witness ==
  /\ ops = 2
  /\ Len(log) = 2
  /\ \A i \in DOMAIN log : IsCreated(log[i])
  /\ Cardinality(DOMAIN active_alerts) = 1
  /\ \A i \in DOMAIN active_alerts :
       /\ active_alerts[i].status = "active"
       /\ active_alerts[i].created_at < now
  /\ Cardinality(DOMAIN alert_cooldowns) = 2

\* C28: while the channel deliveries of a created alert are still to be
\* made, create_alert has already returned the alert to its caller.
C28_ReturnsBeforeDelivery ==
  (FanCreated /\ fan.stage \in { "email", "sms", "webhook", "push" })
    => fan.returned = Some(fan.obj)

\* C30: for every stored alert, acknowledged implies acknowledged_at is
\* set, resolved implies resolved_at is set, the timestamps that are set are
\* ordered created_at <= acknowledged_at <= resolved_at, and response_time
\* is not negative.
C30_TimestampsConsistent ==
  \A id \in DOMAIN active_alerts :
    LET a == active_alerts[id] IN
    /\ a.status = "acknowledged" => a.acknowledged_at # None
    /\ a.status = "resolved" => a.resolved_at # None
    /\ a.acknowledged_at # None => a.created_at <= a.acknowledged_at[1]
    /\ a.resolved_at # None => a.created_at <= a.resolved_at[1]
    /\ (a.acknowledged_at # None /\ a.resolved_at # None)
         => a.acknowledged_at[1] <= a.resolved_at[1]
    /\ a.response_time # None => a.response_time[1] >= 0

\* C27: a login with the valid credentials is answered 200 with an
\* access_token and a token_type; a login with any other credentials is
\* answered 401.
C27_LoginStatus ==
  login_response.status_code # 0
    => IF login_response.username = "admin"
          /\ login_response.password = "password"
       THEN /\ login_response.status_code = 200
            /\ login_response.access_token # None
            /\ login_response.token_type # None
       ELSE login_response.status_code = 401

\* stored alerts created inside the date range of the last statistics query
InRange ==
  { i \in DOMAIN active_alerts :
      /\ query.start <= active_alerts[i].created_at
      /\ active_alerts[i].created_at <= query.end }

\* C21: the result of get_alert_statistics has sum of by_severity counts =
\* total_alerts = sum of by_status counts, and total_alerts is the number of
\* stored alerts whose created_at lies in the date range.
C21_StatisticsConsistent ==
  query.op = "statistics"
    => /\ SumValues(query.by_severity) = query.total_alerts
       /\ SumValues(query.by_status) = query.total_alerts
       /\ query.total_alerts = Cardinality(InRange)

\* statistics over a range that holds three alerts, two of them of one
\* severity, in two statuses, and leaves no stored alert out
C21_Witness ==
  /\ query.op = "statistics"
  /\ query.total_alerts = 3
  /\ Len(query.by_severity) = 2
  /\ Len(query.by_status) = 2

\* statistics over a range that leaves a stored alert out
C21_WitnessPartial ==
  /\ query.op = "statistics"
  /\ query.total_alerts >= 1
  /\ query.total_alerts < Cardinality(DOMAIN active_alerts)

\* stored active alerts matching every filter that was given to the last
\* get_active_alerts call
Matching ==
  { i \in DOMAIN active_alerts :
      LET a == active_alerts[i] IN
      /\ a.status = "active"
      /\ query.severity # None => a.severity = query.severity[1]
      /\ query.alert_type # None => a.alert_type = query.alert_type[1]
      /\ query.camera_id # None => a.camera_id = query.camera_id }

\* C22: get_active_alerts returns exactly the stored active alerts that
\* match every given filter, newest first by created_at, truncated to the
\* first limit entries.
C22_ActiveAlertsFiltered ==
  query.op = "active"
    => LET result == query.result
           n == Cardinality(Matching)
       IN /\ Len(result) = IF query.limit < n THEN query.limit ELSE n
          /\ \A k \in DOMAIN result :
               /\ result[k].id[1] \in Matching
               /\ result[k] = active_alerts[result[k].id[1]]
          /\ \A k, l \in DOMAIN result :
               k < l => /\ result[k].id # result[l].id
                        /\ result[k].created_at >= result[l].created_at
          /\ \A i \in Matching, k \in DOMAIN result :
               (\A l \in DOMAIN result : result[l].id[1] # i)
                 => result[k].created_at >= active_alerts[i].created_at

\* C24: whenever a camera's monitoring task has stopped, whatever the exit
\* path, its capture handle is not open any more and its motion-model state
\* has been removed.
C24_StoppedTaskHoldsNothing ==
  \A c \in CameraIds :
    cams[c].task = "stopped"
      => /\ cams[c].capture # "open"
         /\ ~cams[c].detector

\* the task of camera c stops in this step
Stops(c) == cams[c].task # "stopped" /\ cams'[c].task = "stopped"

\* alerts raised so far for camera c by its monitoring task
EventsOf(c) ==
  { i \in DOMAIN created_log : created_log[i].inp.camera_id = Some(c) }

\* C25: a monitoring task stops only between frames: when it stops it is
\* at one of its sleeps or has not run yet, never between the read of a
\* frame and the end of that frame's processing.
C25_StopsBetweenFrames ==
  [][ \A c \in CameraIds :
        Stops(c) => cams[c].task \in { "pending", "sleep_retry", "sleep_frame" }
    ]_vars

\* a task removed after it processed a frame whose motion and emergency
\* alerts were both raised has stopped on the cancellation
C25_Witness ==
  \E c \in CameraIds :
    /\ cams[c].task = "stopped"
    /\ cams[c].cancelled
    /\ cams[c].frames = 1
    /\ Cardinality(EventsOf(c)) = 2

\* C26: a failed frame read never ends the monitoring loop: it takes the
\* task to the retry sleep, from which it reads again, and a frame read
\* after any number of failures goes on to processing.
C26_FailedReadRetries ==
  [][ \A c \in CameraIds :
        /\ cams'[c].failed > cams[c].failed
             => /\ cams'[c].task = "sleep_retry"
                /\ cams'[c].capture = cams[c].capture
        /\ cams'[c].frames > cams[c].frames => cams'[c].task = "motion"
    ]_vars

\* after two failed reads the third read gave a frame, which was processed
\* to the inter-frame sleep with its motion alert raised
C26_Witness ==
  \E c \in CameraIds :
    /\ cams[c].failed = 2
    /\ cams[c].frames = 1
    /\ cams[c].task = "sleep_frame"
    /\ EventsOf(c) # {}

\* camera c was added and then deleted, or the application has shut down
Gone(c) ==
  /\ cams[c].via # "none"
  /\ cams[c].removed \/ cams[c].shutdown

\* C29: after a camera is deleted or the application shuts down, the
\* monitoring task started when the camera was added is cancelled or has
\* stopped, and it raises no further alert, whichever request added it.
C29_GoneCameraIsSilent ==
  /\ [](\A c \in CameraIds :
          Gone(c) => cams[c].cancelled \/ cams[c].task = "stopped")
  /\ [][ \A c \in CameraIds :
           Gone(c) => EventsOf(c)' = EventsOf(c) ]_vars

\* the (alert_type, camera_id, location) triple of a create_alert call
Triple(inp) == << inp.alert_type, inp.camera_id, inp.location >>

\* C31: a create_alert call is suppressed only because of a recent alert
\* for the same (alert_type, camera_id, location) triple, never because of
\* an alert for a different triple.
C31_NoCrossSuppression ==
  \A j \in DOMAIN log :
    log[j].alert = None
      => \E i \in 1..(j - 1) :
           /\ IsCreated(log[i])
           /\ Triple(log[i].inp) = Triple(log[j].inp)
           /\ log[j].at - log[i].at < ALERT_COOLDOWN

\* the task of camera c has read a frame and is in the stretch that writes
\* the frame file and calls the notification transports
InsideOperation(c) == cams[c].task \in { "motion", "analysis" }

\* the sleep of camera d's task is over and nothing but the scheduler keeps
\* it from reading its next frame
Ready(d) ==
  /\ cams[d].task \in { "sleep_retry", "sleep_frame" }
  /\ ~cams[d].cancelled
  /\ cams[d].frames + cams[d].failed < MaxFrames

\* C32: while one camera task is inside a frame read, a frame file write or
\* a notification transport call, a sibling task that is ready can take its
\* next step.
C32_SiblingsNotBlocked ==
  \A c, d \in CameraIds :
    (c # d /\ InsideOperation(c) /\ Ready(d))
      => ENABLED MonitorRead(d, "frame")

\* C33: a request naming an unknown alert id is answered with the not-found
\* outcome (404), never with the generic internal failure (500). A create
\* request is never suppressed through the API, where every request has a
\* cooldown map of its own, so the suppressed outcome has no case to check.
C33_DistinctOutcomes ==
  api_response.op \in { "get", "acknowledge", "resolve" }
    => api_response.status_code \in { 200, 404 }

\* the values the data model allows
Severities == { "low", "medium", "high", "critical" }

Statuses == { "active", "acknowledged", "resolved" }

\* C34: after any sequence of create_alert and update_alert calls every
\* stored alert has a severity in {low, medium, high, critical} and a status
\* in {active, acknowledged, resolved}.
C34_StoredValuesValid ==
  \A id \in DOMAIN active_alerts :
    /\ active_alerts[id].severity \in Severities
    /\ active_alerts[id].status \in Statuses

\* C35: whenever multi-modal fusion returns success, its user_id is set,
\* the number of successful modalities is at least 1 and at most the number
\* of attempted modalities, and every successful per-modality result carries
\* the user_id of the fused result.
C35_FusedIdentityAgrees ==
  (auth.op = "multi_modal" /\ auth.result.success)
    => LET rs == auth.result.detailed_results IN
       /\ auth.result.user_id # None
       /\ auth.result.successful_modalities >= 1
       /\ auth.result.successful_modalities <= auth.result.total_modalities
       /\ auth.result.successful_modalities = Successes(rs)
       /\ auth.result.total_modalities = Len(rs)
       /\ \A i \in DOMAIN rs :
            rs[i].success => rs[i].user_id = auth.result.user_id

\* fusion succeeded on a fingerprint and an iris that both matched one user
C35_Witness ==
  /\ auth.op = "multi_modal"
  /\ auth.result.success
  /\ auth.face_image = None
  /\ auth.result.successful_modalities = 2

\* C36: a start_recording call that has opened its writer eventually
\* releases the writer and returns its Recording.
C36_RecordingTerminates ==
  \A c \in CameraIds :
    (cams[c].writer = "open")
      ~> (cams[c].recording = "returned" /\ cams[c].writer = "released")

\* the processing of a frame of camera c meets an error in this step
FaultStep(c) ==
  \E detected \in BOOLEAN, o \in Outcomes \ { "ok" } :
    \/ MonitorMotion(c, detected, o)
    \/ MonitorAnalysis(c, detected, o)

\* C37: an error raised while a frame's motion or emergency event is
\* handled, or while detection runs, does not end the monitoring loop: the
\* task goes on to the next stage of the frame with its capture untouched.
C37_FaultsStayLocal ==
  [][ \A c \in CameraIds :
        FaultStep(c)
          => /\ cams'[c].task \in { "analysis", "sleep_frame" }
             /\ cams'[c].capture = cams[c].capture
             /\ cams'[c].cancelled = cams[c].cancelled
    ]_vars

\* a task that met an error has gone on to read a further frame and raised
\* an alert
C37_Witness ==
  \E c \in CameraIds :
    /\ cams[c].faulted
    /\ cams[c].frames = 2
    /\ cams[c].task = "sleep_frame"
    /\ EventsOf(c) # {}

\* the confidence map of an analysis payload, empty when the payload or the
\* map is absent
ScoresOf(ai_analysis) ==
  IF ai_analysis # None /\ DictHas(ai_analysis[1], "confidence_scores")
    THEN DictGet(ai_analysis[1], "confidence_scores")
    ELSE << >>

\* C38: the confidence_score of a created alert is the largest value of the
\* confidence map of its analysis payload, and is 0.0 when the payload or
\* the map is absent or empty.
C38_ConfidenceIsMaxOrZero ==
  \A i \in DOMAIN log :
    log[i].alert # None =>
      LET scores == ScoresOf(log[i].ai_analysis)
          score == log[i].alert[1].confidence_score
      IN IF scores = << >>
           THEN score = Some(0)
           ELSE /\ score # None
                /\ \E j \in DOMAIN scores : scores[j][2] = score[1]
                /\ \A j \in DOMAIN scores : scores[j][2] <= score[1]

\* the part of C38 the code does compute: a present map gives its largest
\* value, a present but empty map gives 0.0
C38_PresentMapScored ==
  \A i \in DOMAIN log :
    (log[i].alert # None /\ log[i].ai_analysis # None
       /\ DictHas(log[i].ai_analysis[1], "confidence_scores")) =>
      LET scores == ScoresOf(log[i].ai_analysis)
          score == log[i].alert[1].confidence_score
      IN IF scores = << >>
           THEN score = Some(0)
           ELSE /\ score # None
                /\ \E j \in DOMAIN scores : scores[j][2] = score[1]
                /\ \A j \in DOMAIN scores : scores[j][2] <= score[1]

====
